---------------------------- MODULE Spec2Model ----------------------------
(* Kaeshi Migrate: the Migration Manager (internal/migrate/manager) over   *)
(* the golang-migrate engine, the migrations directory and the            *)
(* migrations_history audit table, and the SQL validator (pkg/validate).  *)
EXTENDS Integers, Sequences, FiniteSets, TLC

(* ------------------------------ bounds -------------------------------- *)
MaxVer == 2            \* highest migration version that can exist on disk
MaxHist == 4           \* migrations_history holds at most this many rows
MaxRetries == 1        \* the retry bound the Manager is configured with
MaxStep == 2           \* Steps(n) is called with -MaxStep <= n <= MaxStep
MaxBlocks == 2         \* ParseBlocks returns at most this many blocks
MaxStmts == 2          \* a block holds at most this many statements

(* ---------------------------- constants ------------------------------- *)
NilVersion == -1       \* golang-migrate database.NilVersion: no row in schema_migrations
NameWidth == 6         \* "%06d_%s": width of the version prefix of a file name

Contents == {"sqlA", "sqlB"}          \* possible texts of an up file

VARIABLES
    dbVersion,    \* schema_migrations.version, NilVersion when the table is empty
    dbDirty,      \* schema_migrations.dirty
    history,      \* migrations_history rows in id order
    files,        \* migrations directory: version -> text of its up file
    maxRetries,   \* Manager.maxRetries
    shaNotNull,   \* migrations_history.sha256 is NOT NULL without a default
    shared,       \* other clients migrate the same database meanwhile
    val,          \* the call of ValidateSQL in progress, and what it did
    rt,           \* the call of withRetry in progress
    sp,           \* the call of GenericSplit in progress
    pb,           \* the call of ParseBlocks in progress
    cli,          \* the process of the command line in progress
    vs,           \* the call of ValidateStmt in progress
    inst          \* the Manager instances running Up side by side

vars == <<dbVersion, dbDirty, history, files, maxRetries, shaNotNull, shared,
          val, rt, sp, pb, cli, vs, inst>>

\* what one attempt of the engine meets: "ok", the migrations run;
\* "transient", the attempt fails before any migration runs (the lock is
\* not acquired); "fail", a migration fails and leaves its version dirty;
\* "dirtied", the engine reports no error and the row is found dirty all
\* the same when the Manager reads it again, without the lock, while
\* another client's migration is in flight or was interrupted
Outcomes ==
    {"ok", "transient", "fail"} \cup (IF shared THEN {"dirtied"} ELSE {})

(* ------------------------------ helpers ------------------------------- *)
Max(S) == CHOOSE x \in S : \A y \in S : y <= x
Min(S) == CHOOSE x \in S : \A y \in S : x <= y

RECURSIVE Ascending(_)
Ascending(S) == IF S = {} THEN <<>> ELSE <<Min(S)>> \o Ascending(S \ {Min(S)})

RECURSIVE Descending(_)
Descending(S) == IF S = {} THEN <<>> ELSE <<Max(S)>> \o Descending(S \ {Max(S)})

Prefix(s, k) == SubSeq(s, 1, IF k < Len(s) THEN k ELSE Len(s))

(* ------------------------- file names on disk ------------------------- *)
\* fmt.Sprintf("%d", v): the decimal digits of v
RECURSIVE SprintfD(_)
SprintfD(v) == IF v < 10 THEN <<v>> ELSE SprintfD(v \div 10) \o <<v % 10>>

RECURSIVE ZeroPad(_, _)
ZeroPad(digits, width) ==
    IF Len(digits) >= width THEN digits ELSE ZeroPad(<<0>> \o digits, width)

\* fmt.Sprintf("%06d", version): the prefix Generate gives a file name
Sprintf06(v) == ZeroPad(SprintfD(v), NameWidth)

\* strconv.ParseUint(parts[0], 10, 64) of a digit string
RECURSIVE ParseUint(_)
ParseUint(digits) ==
    IF digits = <<>> THEN 0
    ELSE 10 * ParseUint(SubSeq(digits, 1, Len(digits) - 1)) + digits[Len(digits)]

\* the version prefixes of the *.up.sql (and *.down.sql) files in the directory
FileNames(fs) == {Sprintf06(v) : v \in DOMAIN fs}


\* sort.Strings order on version prefixes
LexLess(a, b) ==
    \/ \E i \in 1..Len(a) : /\ i <= Len(b)
                            /\ SubSeq(a, 1, i - 1) = SubSeq(b, 1, i - 1)
                            /\ a[i] < b[i]
    \/ Len(a) < Len(b) /\ a = SubSeq(b, 1, Len(a))

LexMin(S) == CHOOSE x \in S : \A y \in S : x = y \/ LexLess(x, y)

RECURSIVE SortStrings(_)
SortStrings(S) ==
    IF S = {} THEN <<>> ELSE <<LexMin(S)>> \o SortStrings(S \ {LexMin(S)})

Reverse(s) == [i \in 1..Len(s) |-> s[Len(s) + 1 - i]]

\* the text of the up file whose name carries the given prefix
ReadFile(fs, name) == fs[ParseUint(name)]

\* fileHash: the SHA-256 digest of a file's text, in hex
fileHash(text) == IF text = "sqlA" THEN "9f86d0" ELSE "2c26b4"

(* ----------------------- the migration engine ------------------------- *)
(* golang-migrate, as the Manager drives it.  A state of the engine is    *)
(* the row of schema_migrations, st = [v, d]; src is the set of versions  *)
(* its file source holds.  One migration is [ver, target]: running it     *)
(* sets (target, dirty), executes the file of ver, sets (target, clean).  *)

\* the pending up migrations above v, ascending; limit < 0 means all
UpPlan(v, src, limit) ==
    LET all == Ascending({x \in src : x > v})
        cut == IF limit < 0 THEN all ELSE Prefix(all, limit)
    IN  [i \in 1..Len(cut) |-> [ver |-> cut[i], target |-> cut[i]]]

\* the down migrations from v, descending; each targets the version below
DownPlan(v, src, limit) ==
    LET all == Descending({x \in src : x <= v})
        cut == IF limit < 0 THEN all ELSE Prefix(all, limit)
    IN  [i \in 1..Len(cut) |->
            [ver |-> cut[i],
             target |-> IF i < Len(all) THEN all[i + 1] ELSE NilVersion]]

\* runMigrations: the plan in order; the failIdx-th migration fails when
\* the attempt meets "fail", and leaves its target version dirty; with
\* "dirtied" the plan runs and the row is then dirty at the version reached
\* (at the first version when the plan ended at nil)
RunMigrations(st, plan, out, failIdx, shortBy) ==
    LET k == IF failIdx < Len(plan) THEN failIdx ELSE Len(plan)
    IN  IF out = "fail"
        THEN [st  |-> [v |-> plan[k].target, d |-> TRUE],
              err |-> "ErrRun",
              ran |-> {plan[i].ver : i \in 1..k}]
        ELSE IF out = "dirtied"
        THEN [st  |-> [v |-> IF plan[Len(plan)].target = NilVersion
                             THEN plan[Len(plan)].ver
                             ELSE plan[Len(plan)].target,
                       d |-> TRUE],
              err |-> IF shortBy > 0 THEN "ErrShortLimit" ELSE "nil",
              ran |-> {plan[i].ver : i \in 1..Len(plan)}]
        ELSE [st  |-> [v |-> plan[Len(plan)].target, d |-> FALSE],
              err |-> IF shortBy > 0 THEN "ErrShortLimit" ELSE "nil",
              ran |-> {plan[i].ver : i \in 1..Len(plan)}]

EngineErr(st, e) == [st |-> st, err |-> e, ran |-> {}]

\* migrate.Up
mUp(st, src, out, failIdx) ==
    IF out = "transient" THEN EngineErr(st, "ErrLocked")
    ELSE IF st.d THEN EngineErr(st, "ErrDirty")
    ELSE IF st.v >= 0 /\ st.v \notin src THEN EngineErr(st, "ErrNotExist")
    ELSE LET plan == UpPlan(st.v, src, -1)
         IN  IF plan = <<>> THEN EngineErr(st, "ErrNoChange")
             ELSE RunMigrations(st, plan, out, failIdx, 0)

\* migrate.Down
mDown(st, src, out, failIdx) ==
    IF out = "transient" THEN EngineErr(st, "ErrLocked")
    ELSE IF st.d THEN EngineErr(st, "ErrDirty")
    ELSE IF st.v = NilVersion THEN EngineErr(st, "ErrNoChange")
    ELSE IF st.v \notin src THEN EngineErr(st, "ErrNotExist")
    ELSE RunMigrations(st, DownPlan(st.v, src, -1), out, failIdx, 0)

\* migrate.Steps(n)
mSteps(n, st, src, out, failIdx) ==
    IF n = 0 THEN EngineErr(st, "ErrNoChange")
    ELSE IF out = "transient" THEN EngineErr(st, "ErrLocked")
    ELSE IF st.d THEN EngineErr(st, "ErrDirty")
    ELSE IF st.v >= 0 /\ st.v \notin src THEN EngineErr(st, "ErrNotExist")
    ELSE LET plan == IF n > 0 THEN UpPlan(st.v, src, n)
                              ELSE DownPlan(st.v, src, -n)
             want == IF n > 0 THEN n ELSE -n
         IN  IF plan = <<>> THEN EngineErr(st, "ErrNotExist")
             ELSE RunMigrations(st, plan, out, failIdx, want - Len(plan))

\* migrate.Force(version)
mForce(version, st) ==
    IF version < NilVersion THEN EngineErr(st, "ErrInvalidVersion")
    ELSE [st |-> [v |-> version, d |-> FALSE], err |-> "nil", ran |-> {}]

\* migrate.Version: a nil version reads as (0, false, ErrNilVersion)
mVersion(st) ==
    IF st.v = NilVersion THEN [version |-> 0, dirty |-> FALSE]
    ELSE [version |-> st.v, dirty |-> st.d]

EngineOp(kind, n, st, src, out, failIdx) ==
    CASE kind = "Up"    -> mUp(st, src, out, failIdx)
      [] kind = "Down"  -> mDown(st, src, out, failIdx)
      [] kind = "Steps" -> mSteps(n, st, src, out, failIdx)

(* ------------------------------ Manager ------------------------------- *)
\* withRetry: attempts 0..retries, stopping at the first nil or ErrNoChange;
\* acc carries the engine state, the last error, the version its message
\* names (ErrDirty names the version it found dirty, the other errors of
\* the engine name none), the number of calls of op and the versions whose
\* files the engine executed
RECURSIVE withRetryLoop(_, _, _, _, _, _, _, _)
withRetryLoop(kind, n, src, retries, outs, failIdx, attempt, acc) ==
    IF attempt > retries THEN acc
    ELSE LET r == EngineOp(kind, n, acc.st, src, outs[attempt + 1], failIdx)
             acc2 == [st    |-> r.st,
                      err   |-> r.err,
                      errVer |-> IF r.err = "ErrDirty" THEN acc.st.v
                                 ELSE NilVersion,
                      calls |-> acc.calls + 1,
                      ran   |-> acc.ran \cup r.ran]
         IN  IF r.err \in {"nil", "ErrNoChange"}
             THEN [acc2 EXCEPT !.err = "nil"]
             ELSE withRetryLoop(kind, n, src, retries, outs, failIdx,
                                attempt + 1, acc2)

withRetry(kind, n, st, src, retries, outs, failIdx) ==
    withRetryLoop(kind, n, src, retries, outs, failIdx, 0,
                  [st |-> st, err |-> "nil", errVer |-> NilVersion,
                   calls |-> 0, ran |-> {}])

\* VersionCommitted: the committed flag of the newest row of the version
VersionCommitted(h, v) ==
    LET rows == {i \in 1..Len(h) : h[i].version = v}
    IN  IF rows = {} THEN FALSE ELSE h[Max(rows)].committed

\* actor := mgr.actor, "unknown" when the Manager was built with no name:
\* what every INSERT of this Manager writes to executed_by
actor == "unknown"

\* the INSERT of recordHistory names no sha256 column: the row holds NULL
\* there ("optional hash"); where the column is NOT NULL without a default
\* the INSERT is refused, and the refusal is only logged
recordHistory(h, action, version, notNull) ==
    IF notNull THEN h
    ELSE Append(h, [action |-> action, version |-> version,
                    executed_by |-> actor,
                    committed |-> FALSE, sha256 |-> "NULL"])

\* a faulty pendingUpFiles: the comparison lets the current version through
pendingUpFilesInclusive(fs, cur) ==
    SortStrings({f \in FileNames(fs) : ParseUint(f) >= cur})

\* pendingUpFiles: the names, sorted, whose version is above cur
pendingUpFiles(fs, cur) ==
    SortStrings({f \in FileNames(fs) : ParseUint(f) > cur})

\* pendingDownFiles: filepath.Glob of fmt.Sprintf("%d_*.down.sql", cur)
pendingDownFiles(fs, cur) ==
    Reverse(SortStrings({f \in FileNames(fs) : f = SprintfD(cur)}))

\* lastFileVersion: the highest version among the up files, 0 without any
lastFileVersion(fs) ==
    IF FileNames(fs) = {} THEN 0 ELSE Max({ParseUint(f) : f \in FileNames(fs)})

(* The result of one Manager call: err is the kind of the error returned  *)
(* ("nil" for success), errVer the version its message names, st the row *)
(* of schema_migrations and h the history it leaves, validated the       *)
(* versions whose file went to the validator, calls the number of        *)
(* engine invocations, ran the versions whose file the engine executed.  *)
\* inc and dec are what the call adds to the applied and rollback counters
Result(err, errVer, st, h, validated, calls, ran) ==
    [err |-> err, errVer |-> errVer, st |-> st, h |-> h,
     validated |-> validated, calls |-> calls, ran |-> ran,
     inc |-> 0, dec |-> 0]

\* a faulty re-read: the dirty flag m.Version() returns is dropped
VersionAfterFlagDropped(st) == [mVersion(st) EXCEPT !.dirty = FALSE]

\* after, dirtyAfter, _ := mgr.m.Version(), read once withRetry returned
VersionAfter(st) == mVersion(st)

\* a faulty step 1: the comparison with `before` is missing
UpGuardNoFloor(h, upFiles, before) ==
    LET bad == {i \in 1..Len(upFiles) :
                   VersionCommitted(h, ParseUint(upFiles[i]))}
    IN  IF bad = {} THEN [err |-> "nil", errVer |-> NilVersion]
        ELSE [err |-> "committed", errVer |-> ParseUint(upFiles[Min(bad)])]

\* step 1 of Up: the first candidate at or below `before`, or committed
UpGuard(h, upFiles, before) ==
    LET bad == {i \in 1..Len(upFiles) :
                   \/ ParseUint(upFiles[i]) <= before
                   \/ VersionCommitted(h, ParseUint(upFiles[i]))}
    IN  IF bad = {} THEN [err |-> "nil", errVer |-> NilVersion]
        ELSE IF ParseUint(upFiles[Min(bad)]) <= before
        THEN [err |-> "lessOrEqual", errVer |-> ParseUint(upFiles[Min(bad)])]
        ELSE [err |-> "committed", errVer |-> ParseUint(upFiles[Min(bad)])]

\* the hash query of step 2: sha256 of the newest committed `up` row
CommittedUpRows(h, v) ==
    {i \in 1..Len(h) : h[i].action = "up" /\ h[i].version = v /\ h[i].committed}

\* a faulty step 2: strictHash is not consulted, no hash is compared
HashGuardOff(h, fs, upFiles) == [err |-> "nil", errVer |-> NilVersion]

\* step 2 of Up: the first candidate whose newest committed `up` row holds
\* a hash that Scan cannot read into a string (NULL) or that is not the
\* hash of the file's text
HashGuard(h, fs, upFiles) ==
    LET dbHash(i) == h[Max(CommittedUpRows(h, ParseUint(upFiles[i])))].sha256
        bad == {i \in 1..Len(upFiles) :
                   /\ CommittedUpRows(h, ParseUint(upFiles[i])) # {}
                   /\ \/ dbHash(i) = "NULL"
                      \/ /\ dbHash(i) # ""
                         /\ dbHash(i) # fileHash(ReadFile(fs, upFiles[i]))}
    IN  IF bad = {} THEN [err |-> "nil", errVer |-> NilVersion]
        ELSE IF dbHash(Min(bad)) = "NULL"
        THEN [err |-> "hashQuery", errVer |-> NilVersion]
        ELSE [err |-> "hashMismatch", errVer |-> ParseUint(upFiles[Min(bad)])]

\* step 5 of Up: an `up` row with the hash of every candidate in (before, after]
RECURSIVE RecordUps(_, _, _, _, _)
RecordUps(h, fs, upFiles, before, after) ==
    IF upFiles = <<>> THEN h
    ELSE LET v == ParseUint(Head(upFiles))
             h2 == IF v > before /\ v <= after
                   THEN Append(h, [action |-> "up", version |-> v,
                                   executed_by |-> actor,
                                   committed |-> FALSE,
                                   sha256 |-> fileHash(ReadFile(fs, Head(upFiles)))])
                   ELSE h
         IN  RecordUps(h2, fs, Tail(upFiles), before, after)

\* a faulty step 3: the verdict of the validator is dropped
ValidateAllIgnored(upFiles, valFail) ==
    [ok     |-> TRUE,
     errVer |-> NilVersion,
     seen   |-> {ParseUint(upFiles[i]) : i \in 1..Len(upFiles)}]

\* step 3 of Up: the candidates go to the validator in order, up to the
\* first it rejects; valFail is the position of that candidate (0 or beyond
\* the candidates: the validator accepts them all)
ValidateAll(upFiles, valFail) ==
    LET rejected == valFail \in 1..Len(upFiles)
        nVal     == IF rejected THEN valFail ELSE Len(upFiles)
    IN  [ok     |-> ~rejected,
         errVer |-> IF rejected THEN ParseUint(upFiles[valFail]) ELSE NilVersion,
         seen   |-> {ParseUint(upFiles[i]) : i \in 1..nVal}]

\* the final switch of Up: r is what withRetry returned, post the version
\* read after it, h2 the history after step 5
UpSwitch(r, post, h2, seen) ==
    IF r.err # "nil"
    THEN Result(r.err, r.errVer, r.st, h2, seen, r.calls, r.ran)
    ELSE IF post.dirty
    THEN Result("dirtyAfter", post.version, r.st, h2, seen, r.calls, r.ran)
    ELSE Result("nil", NilVersion, r.st, h2, seen, r.calls, r.ran)

\* step 5 of Up and its final switch
UpRecord(h, fs, upFiles, before, seen, r, post) ==
    UpSwitch(r, post,
             IF r.err = "nil" /\ post.version > before
             THEN RecordUps(h, fs, upFiles, before, post.version)
             ELSE h,
             seen)

\* step 4 of Up on: the engine under withRetry, then the version read again
UpApply(h, fs, upFiles, before, seen, r) ==
    UpRecord(h, fs, upFiles, before, seen, r, VersionAfter(r.st))

\* Manager.Up from the candidate list on (steps 1 to 5 and the final switch)
UpFrom(st, h, fs, upFiles, strict, retries, outs, failIdx, valFail) ==
    LET before  == mVersion(st).version
        g1      == UpGuard(h, upFiles, before)
        g2      == HashGuard(h, fs, upFiles)
        checked == ValidateAll(upFiles, valFail)
    IN  IF upFiles = <<>> THEN Result("nil", NilVersion, st, h, {}, 0, {})
        ELSE IF g1.err # "nil" THEN Result(g1.err, g1.errVer, st, h, {}, 0, {})
        ELSE IF strict /\ g2.err # "nil"
             THEN Result(g2.err, g2.errVer, st, h, {}, 0, {})
        ELSE IF ~checked.ok
             THEN Result("invalidSQL", checked.errVer, st, h, checked.seen, 0, {})
        ELSE UpApply(h, fs, upFiles, before, checked.seen,
                     withRetry("Up", 0, st, DOMAIN fs, retries, outs, failIdx))

\* Manager.Up
UpCall(st, h, fs, strict, retries, outs, failIdx, valFail) ==
    LET cur == mVersion(st)
    IN  IF cur.dirty THEN Result("dirty", cur.version, st, h, {}, 0, {})
        ELSE UpFrom(st, h, fs, pendingUpFiles(fs, cur.version), strict,
                    retries, outs, failIdx, valFail)

\* a faulty query: only the newest row is looked at, as VersionCommitted does
CommittedNewest(h) == h # <<>> /\ h[Len(h)].committed

\* the query of Down: SELECT true ... WHERE committed = true LIMIT 1
CommittedExists(h) == \E i \in 1..Len(h) : h[i].committed

\* the final switch of Down: r is what withRetry returned, post the
\* version read after it
DownSwitch(h, before, notNull, r, post) ==
    IF r.err # "nil"
    THEN Result(r.err, r.errVer, r.st, h, {}, r.calls, r.ran)
    ELSE IF post.dirty
    THEN Result("dirtyAfter", post.version, r.st, h, {}, r.calls, r.ran)
    ELSE IF before > post.version
    THEN [Result("nil", NilVersion, r.st,
                 recordHistory(h, "down", post.version, notNull),
                 {}, r.calls, r.ran)
             EXCEPT !.dec = before - post.version]
    ELSE Result("nil", NilVersion, r.st, h, {}, r.calls, r.ran)

\* the engine under withRetry, then the version read again
DownApply(h, before, notNull, r) ==
    DownSwitch(h, before, notNull, r, VersionAfter(r.st))

\* Manager.Down
DownCall(st, h, fs, retries, notNull, outs, failIdx) ==
    LET cur == mVersion(st)
    IN  IF cur.dirty THEN Result("dirty", cur.version, st, h, {}, 0, {})
        ELSE IF CommittedExists(h)
        THEN Result("committed", cur.version, st, h, {}, 0, {})
        ELSE DownApply(h, cur.version, notNull,
                       withRetry("Down", 0, st, DOMAIN fs, retries, outs, failIdx))

\* the final switch of Steps: r is what withRetry returned, post the
\* version read after it, seen the version of the down file validated
StepsSwitch(h, before, notNull, seen, r, post) ==
    IF r.err # "nil"
    THEN Result(r.err, r.errVer, r.st, h, seen, r.calls, r.ran)
    ELSE IF post.dirty
    THEN Result("dirtyAfter", post.version, r.st, h, seen, r.calls, r.ran)
    ELSE IF post.version > before
    THEN [Result("nil", NilVersion, r.st,
                 recordHistory(h, "up", post.version, notNull),
                 seen, r.calls, r.ran)
             EXCEPT !.inc = post.version - before]
    ELSE IF before > post.version
    THEN [Result("nil", NilVersion, r.st,
                 recordHistory(h, "rollback", post.version, notNull),
                 seen, r.calls, r.ran)
             EXCEPT !.dec = before - post.version]
    ELSE Result("nil", NilVersion, r.st, h, seen, r.calls, r.ran)

\* the engine under withRetry, then the version read again
StepsApply(h, before, notNull, seen, r) ==
    StepsSwitch(h, before, notNull, seen, r, VersionAfter(r.st))

\* Manager.Steps(n) past the dirty guard; valFail >= 1: the validator
\* rejects the down file
StepsClean(n, st, h, fs, retries, notNull, outs, failIdx, valFail) ==
    LET before == mVersion(st).version
        downs  == IF n < 0 THEN pendingDownFiles(fs, before) ELSE <<>>
        seen   == IF downs = <<>> THEN {} ELSE {ParseUint(downs[1])}
    IN  IF n < 0 /\ VersionCommitted(h, before)
             THEN Result("committed", before, st, h, {}, 0, {})
        ELSE IF downs # <<>> /\ valFail >= 1
             THEN Result("invalidSQL", ParseUint(downs[1]), st, h, seen, 0, {})
        ELSE StepsApply(h, before, notNull, seen,
                        withRetry("Steps", n, st, DOMAIN fs, retries, outs,
                                  failIdx))

\* a faulty Steps: the dirty flag read from the engine is not tested
StepsUnguarded(n, st, h, fs, retries, notNull, outs, failIdx, valFail) ==
    StepsClean(n, st, h, fs, retries, notNull, outs, failIdx, valFail)

\* Manager.Steps(n)
StepsCall(n, st, h, fs, retries, notNull, outs, failIdx, valFail) ==
    LET cur == mVersion(st)
    IN  IF cur.dirty THEN Result("dirty", cur.version, st, h, {}, 0, {})
        ELSE StepsClean(n, st, h, fs, retries, notNull, outs, failIdx, valFail)

\* uint(x) of an int; 2^30 stands for 2^64, beyond the model checker's integers
UintSpan == 1073741824
Uint(x) == x % UintSpan

\* a faulty SafeForce: the version is forced before the window is checked
SafeForceEager(target, st, h, fs, notNull) ==
    LET cur == mVersion(st)
        f   == mForce(target, st)
    IN  IF VersionCommitted(h, Uint(target))
        THEN Result("committed", target, st, h, {}, 0, {})
        ELSE IF Uint(target) > lastFileVersion(fs)
        THEN Result("exceedsLast", target, st, h, {}, 0, {})
        ELSE IF ~cur.dirty
        THEN Result("notDirty", cur.version, st, h, {}, 0, {})
        ELSE IF Uint(target) # Uint(cur.version - 1)
        THEN Result("window", cur.version, f.st, h, {}, 0, {})
        ELSE IF f.err # "nil"
        THEN Result("forceFailed", target, st, h, {}, 0, {})
        ELSE Result("nil", NilVersion, f.st,
                    recordHistory(h, "safe-force", Uint(target), notNull),
                    {}, 0, {})

\* Manager.SafeForce(target)
SafeForceCall(target, st, h, fs, notNull) ==
    LET cur == mVersion(st)
        f   == mForce(target, st)
    IN  IF VersionCommitted(h, Uint(target))
        THEN Result("committed", target, st, h, {}, 0, {})
        ELSE IF Uint(target) > lastFileVersion(fs)
        THEN Result("exceedsLast", target, st, h, {}, 0, {})
        ELSE IF ~cur.dirty
        THEN Result("notDirty", cur.version, st, h, {}, 0, {})
        ELSE IF Uint(target) # Uint(cur.version - 1)
        THEN Result("window", cur.version, st, h, {}, 0, {})
        ELSE IF f.err # "nil"
        THEN Result("forceFailed", target, st, h, {}, 0, {})
        ELSE Result("nil", NilVersion, f.st,
                    recordHistory(h, "safe-force", Uint(target), notNull),
                    {}, 0, {})

\* Manager.Force(version)
ForceCall(version, st, h) ==
    LET f == mForce(version, st)
    IN  IF f.err # "nil" THEN Result("forceFailed", version, st, h, {}, 0, {})
        ELSE Result("nil", NilVersion, f.st, h, {}, 0, {})

\* what Begin, Exec and Commit of CommitAll can meet
CommitOutcomes == {"ok", "beginErr", "execErr", "commitErr"}

\* a faulty UPDATE: SET committed = NOT committed on the rows it reaches
UpdateCommittedToggles(h, k) ==
    [i \in 1..Len(h) |->
        IF i <= k THEN [h[i] EXCEPT !.committed = ~@] ELSE h[i]]

\* UPDATE migrations_history SET committed = true WHERE committed = false,
\* as the transaction sees the table once the statement has reached the
\* first k rows (all of them when it completes)
UpdateCommitted(h, k) ==
    [i \in 1..Len(h) |->
        IF i <= k /\ ~h[i].committed THEN [h[i] EXCEPT !.committed = TRUE]
        ELSE h[i]]

\* a rollback that keeps what the transaction wrote
TxRollbackKeeps(h, tx) == tx

\* tx.Rollback(): the table is as it was before Begin
TxRollback(h, tx) == h

\* Manager.CommitAll
CommitAllCall(st, h, out, k) ==
    IF out = "beginErr" THEN Result("beginErr", NilVersion, st, h, {}, 0, {})
    ELSE IF out = "execErr"
    THEN Result("execErr", NilVersion, st,
                TxRollback(h, UpdateCommitted(h, k)), {}, 0, {})
    ELSE IF out = "commitErr"
    THEN Result("commitErr", NilVersion, st, h, {}, 0, {})
    ELSE Result("nil", NilVersion, st, UpdateCommitted(h, Len(h)), {}, 0, {})

\* a faulty Status: a file of the current version counts as pending
StatusInclusive(st, fs) ==
    [ver |-> mVersion(st).version,
     pending |-> Cardinality({f \in FileNames(fs) :
                                 ParseUint(f) >= mVersion(st).version})]

\* Manager.Status: the current version and the number of pending up files
Status(st, fs) ==
    [ver |-> mVersion(st).version,
     pending |-> Cardinality({f \in FileNames(fs) :
                                 ParseUint(f) > mVersion(st).version})]

(* ----------------------- withRetry, step by step ---------------------- *)
(* rt.attempt is the loop variable, rt.err the variable err, rt.outs what  *)
(* op returned call by call, rt.ret what withRetry returned.               *)
MaxRetryBound == 3     \* withRetry runs with a bound in -MaxRetryBound..MaxRetryBound

RetryBounds == (-MaxRetryBound)..MaxRetryBound

\* what op can return: nil, migrate.ErrNoChange, or another error
OpResults == {"nil", "ErrNoChange", "ErrLocked", "ErrRun"}

RtIdle ==
    [pc |-> "idle", attempt |-> 0, calls |-> 0, err |-> "nil",
     ret |-> "nil", outs |-> <<>>]

\* var err error; for attempt := 0
RetryEnter(r) == [r EXCEPT !.pc = "loop", !.attempt = 0, !.err = "nil"]

\* the loop condition: attempt <= mgr.maxRetries
RetryGoesOn(r, retries) == r.attempt <= retries

\* the loop body: err = op(), return nil on nil or ErrNoChange, else attempt++
RetryBody(r, e) ==
    IF e \in {"nil", "ErrNoChange"}
    THEN [r EXCEPT !.pc = "returned", !.calls = @ + 1, !.outs = Append(@, e),
                   !.err = e, !.ret = "nil"]
    ELSE [r EXCEPT !.calls = @ + 1, !.outs = Append(@, e),
                   !.err = e, !.attempt = @ + 1]

\* past the loop: return err
RetryExhausted(r) == [r EXCEPT !.pc = "returned", !.ret = r.err]

(* ---------------------- GenericSplit, step by step -------------------- *)
(* A text is a sequence of bytes, each a string of one character.  sp.i   *)
(* is the index i of the loop (from 1), sp.sb the builder, sp.stmts the   *)
(* statements flushed so far; sp.cuts, kept for the properties, holds the *)
(* indices of the `;` at which the loop called flush.                     *)
MaxTokens == 5         \* an input text is made of at most this many tokens

\* the bytes the splitter tells apart, with "a" for a letter, digit or `_`
\* and "\n" for white space
Bytes == {";", "'", "\"", "-", "\n", "/", "*", "$", "a"}

\* an input text is a concatenation of bytes and of dollar tags
Tokens == {<<b>> : b \in Bytes} \cup {<<"$", "a", "$">>}

RECURSIVE Concat(_)
Concat(ts) == IF ts = <<>> THEN <<>> ELSE Head(ts) \o Concat(Tail(ts))

Texts == {Concat(ts) : ts \in UNION {[1..n -> Tokens] : n \in 0..MaxTokens}}

SpIdle ==
    [pc |-> "idle", text |-> <<>>, i |-> 1, sb |-> <<>>, stmts |-> <<>>,
     inSQuote |-> FALSE, inDQuote |-> FALSE, inLineComment |-> FALSE,
     inBlockComment |-> FALSE, dollarTag |-> <<>>, cuts |-> {}]

\* unicode.IsSpace, unicode.IsLetter || unicode.IsDigit || '_'
IsSpace(b) == b = "\n"
IsTagByte(b) == b = "a"

\* strings.TrimSpace
RECURSIVE TrimLeft(_)
TrimLeft(t) ==
    IF t # <<>> /\ IsSpace(Head(t)) THEN TrimLeft(Tail(t)) ELSE t

RECURSIVE TrimRight(_)
TrimRight(t) ==
    IF t # <<>> /\ IsSpace(t[Len(t)])
    THEN TrimRight(SubSeq(t, 1, Len(t) - 1)) ELSE t

TrimSpace(t) == TrimRight(TrimLeft(t))

\* flush: the trimmed builder becomes a statement unless it is empty
Flush(s) ==
    [s EXCEPT !.stmts = IF TrimSpace(s.sb) = <<>> THEN @
                        ELSE Append(@, TrimSpace(s.sb)),
              !.sb = <<>>]

\* len(sqlStr[i:]) >= len(tag) && strings.HasPrefix(sqlStr[i:], tag)
HasPrefixAt(text, i, tag) ==
    /\ i + Len(tag) - 1 <= Len(text)
    /\ SubSeq(text, i, i + Len(tag) - 1) = tag

\* the scan for a dollar tag from the `$` at i: the index j of the next `$`
\* when only tag bytes lie between, and i (no tag) otherwise
RECURSIVE TagScan(_, _, _)
TagScan(text, i, j) ==
    IF j <= Len(text) /\ text[j] # "$"
    THEN IF ~IsTagByte(text[j]) THEN i ELSE TagScan(text, i, j + 1)
    ELSE j

\* sqlStr[i+1], or the zero byte "NUL" at the last index
NextByte(s) == IF s.i + 1 <= Len(s.text) THEN s.text[s.i + 1] ELSE "NUL"

\* sb.WriteByte(c); sb.WriteByte(next); i++; continue
TakeTwo(s) == [s EXCEPT !.sb = @ \o <<s.text[s.i], NextByte(s)>>, !.i = @ + 2]

\* a faulty write: a `;` is taken for the end of a statement wherever it is
TakeOneSplits(s) ==
    IF s.text[s.i] = ";"
    THEN [Flush(s) EXCEPT !.i = @ + 1, !.cuts = @ \cup {s.i}]
    ELSE [s EXCEPT !.sb = Append(@, s.text[s.i]), !.i = @ + 1]

\* sb.WriteByte(c); continue
TakeOne(s) == [s EXCEPT !.sb = Append(@, s.text[s.i]), !.i = @ + 1]

\* the mutant: the tag is not looked for, the section ends at its next byte
DollarBodyOneByte(s) ==
    [TakeOne(s) EXCEPT !.dollarTag = <<>>]

\* inside a dollar-quoted section: the byte is written, and at the tag the
\* tag is written after it and the index moves past the tag
DollarBody(s) ==
    IF HasPrefixAt(s.text, s.i, s.dollarTag)
    THEN [s EXCEPT !.sb = Append(@, s.text[s.i]) \o s.dollarTag,
                   !.i = @ + Len(s.dollarTag),
                   !.dollarTag = <<>>]
    ELSE TakeOne(s)

\* the `$` at i opens a section when the scan ends on a later `$`
OpensDollar(s, j) == j > s.i /\ j <= Len(s.text) /\ s.text[j] = "$"

\* if c == ';' { flush(); continue }; sb.WriteByte(c)
Outside(s) ==
    IF s.text[s.i] = ";"
    THEN [Flush(s) EXCEPT !.i = @ + 1, !.cuts = @ \cup {s.i}]
    ELSE TakeOne(s)

\* if c == '$' { ... }
DollarOpen(s, j) ==
    IF OpensDollar(s, j)
    THEN [s EXCEPT !.dollarTag = SubSeq(s.text, s.i, j),
                   !.sb = @ \o SubSeq(s.text, s.i, j),
                   !.i = j + 1]
    ELSE Outside(s)

\* one iteration of the loop over the bytes of sqlStr
SplitStep(s) ==
    LET c == s.text[s.i]
        next == NextByte(s)
    IN  IF s.inLineComment
        THEN [TakeOne(s) EXCEPT !.inLineComment = (c # "\n")]
        ELSE IF s.inBlockComment
        THEN IF c = "*" /\ next = "/"
             THEN [TakeTwo(s) EXCEPT !.inBlockComment = FALSE]
             ELSE TakeOne(s)
        ELSE IF s.inSQuote
        THEN IF c = "'"
             THEN IF next = "'" THEN TakeTwo(s)
                  ELSE [TakeOne(s) EXCEPT !.inSQuote = FALSE]
             ELSE TakeOne(s)
        ELSE IF s.inDQuote
        THEN IF c = "\""
             THEN IF next = "\"" THEN TakeTwo(s)
                  ELSE [TakeOne(s) EXCEPT !.inDQuote = FALSE]
             ELSE TakeOne(s)
        ELSE IF s.dollarTag # <<>> THEN DollarBody(s)
        ELSE IF c = "-" /\ next = "-"
        THEN [TakeTwo(s) EXCEPT !.inLineComment = TRUE]
        ELSE IF c = "/" /\ next = "*"
        THEN [TakeTwo(s) EXCEPT !.inBlockComment = TRUE]
        ELSE IF c = "'" THEN [TakeOne(s) EXCEPT !.inSQuote = TRUE]
        ELSE IF c = "\"" THEN [TakeOne(s) EXCEPT !.inDQuote = TRUE]
        ELSE IF c = "$" THEN DollarOpen(s, TagScan(s.text, s.i, s.i + 1))
        ELSE Outside(s)

(* ----------------------------- ParseBlocks ---------------------------- *)
(* Dialect.ParseBlocks of PostgreSQL, one statement of the range loop at  *)
(* a time.  A statement is white space, a text and what follows the text. *)
MaxInput == 5          \* ParseBlocks is given at most this many statements

Statements ==
    {[lead |-> "", word |-> w, tail |-> ""] :
        w \in {"BEGIN", "BEGIN TRANSACTION", "START TRANSACTION", "COMMIT",
               "END", "ROLLBACK", "SELECT 1", "INSERT INTO a VALUES(1)"}}
    \cup {[lead |-> "", word |-> "begin", tail |-> ";"],
          [lead |-> " ", word |-> "commit", tail |-> " ;"],
          [lead |-> "", word |-> "COMMIT", tail |-> "; "]}

Inputs == UNION {[1..n -> Statements] : n \in 0..MaxInput}

\* strings.TrimSuffix(s, ";")
TrimSuffixSemi(s) ==
    IF s.tail = ";" THEN [s EXCEPT !.tail = ""]
    ELSE IF s.tail = " ;" THEN [s EXCEPT !.tail = " "]
    ELSE s

\* strings.TrimSpace on a statement
TrimStmt(s) ==
    [lead |-> "", word |-> s.word,
     tail |-> IF s.tail = " " THEN "" ELSE IF s.tail = "; " THEN ";" ELSE s.tail]

\* strings.ToUpper
ToUpper(s) ==
    [s EXCEPT !.word = IF @ = "begin" THEN "BEGIN"
                       ELSE IF @ = "commit" THEN "COMMIT" ELSE @]

\* up := strings.ToUpper(strings.TrimSpace(strings.TrimSuffix(s, ";")))
UpOfStmt(s) == ToUpper(TrimStmt(TrimSuffixSemi(s)))

Is(up, words) == up.lead = "" /\ up.tail = "" /\ up.word \in words

\* case "BEGIN", "BEGIN TRANSACTION", "START TRANSACTION"
IsBegin(s) ==
    Is(UpOfStmt(s), {"BEGIN", "BEGIN TRANSACTION", "START TRANSACTION"})

\* case "COMMIT", "END", "ROLLBACK"
IsCommit(s) == Is(UpOfStmt(s), {"COMMIT", "END", "ROLLBACK"})

PbIdle ==
    [pc |-> "idle", stmts |-> <<>>, k |-> 1, blocks |-> <<>>, cur |-> <<>>,
     inBlock |-> FALSE, err |-> "nil"]

\* return nil, fmt.Errorf(...)
PbError(s, e) == [s EXCEPT !.pc = "returned", !.blocks = <<>>, !.err = e]

\* the closing marker with the block left open: inBlock is not reset
CloseBlockStaysOpen(s) ==
    [s EXCEPT !.blocks = Append(@, s.cur), !.cur = <<>>, !.k = @ + 1]

\* blocks = append(blocks, cur); cur = nil; inBlock = false; continue
CloseBlock(s) ==
    [s EXCEPT !.blocks = Append(@, s.cur), !.cur = <<>>, !.inBlock = FALSE,
              !.k = @ + 1]

\* if len(cur) > 0 { blocks = append(blocks, cur); cur = nil };
\* inBlock = true; continue
OpenBlock(s) ==
    [s EXCEPT !.blocks = IF Len(s.cur) > 0 THEN Append(@, s.cur) ELSE @,
              !.cur = <<>>, !.inBlock = TRUE, !.k = @ + 1]

\* the loop with a statement outside a bracket made a block of its own
BlockIterSingleton(s) ==
    LET st == s.stmts[s.k]
    IN  IF IsBegin(st)
        THEN IF s.inBlock THEN PbError(s, "nested BEGIN not allowed")
             ELSE OpenBlock(s)
        ELSE IF IsCommit(st)
        THEN IF ~s.inBlock THEN PbError(s, "COMMIT without BEGIN")
             ELSE CloseBlock(s)
        ELSE IF s.inBlock THEN [s EXCEPT !.cur = Append(@, st), !.k = @ + 1]
        ELSE [s EXCEPT !.blocks = Append(@, <<st>>), !.k = @ + 1]

\* one iteration of the loop over stmts
BlockIter(s) ==
    LET st == s.stmts[s.k]
    IN  IF IsBegin(st)
        THEN IF s.inBlock THEN PbError(s, "nested BEGIN not allowed")
             ELSE OpenBlock(s)
        ELSE IF IsCommit(st)
        THEN IF ~s.inBlock THEN PbError(s, "COMMIT without BEGIN")
             ELSE CloseBlock(s)
        ELSE [s EXCEPT !.cur = Append(@, st), !.k = @ + 1]

\* after the loop
BlocksReturn(s) ==
    IF s.inBlock THEN PbError(s, "unterminated BEGIN block")
    ELSE LET b1 == IF Len(s.cur) > 0 THEN Append(s.blocks, s.cur)
                   ELSE s.blocks
         IN  [s EXCEPT !.pc = "returned",
                       !.blocks = IF Len(b1) = 0 THEN <<<<>>>> ELSE b1]


(* ----------------------------- Validator ------------------------------ *)
(* ValidateSQL and validateBlock (pkg/validate), step by step.  A         *)
(* statement is known by how the dialect classes it: "plain" is checkable *)
(* and safe in a transaction, "uncheckable" fails IsCheckable, "nonTx" is *)
(* checkable and fails IsSafeInTxn.  val.begun, val.rolledBack and        *)
(* val.committed count the calls of db.Begin that returned a transaction, *)
(* of tx.Rollback and of tx.Commit.                                       *)
StmtKinds == {"plain", "uncheckable", "nonTx"}

\* the checks of ValidateSQL before it opens the database, and OpenDB
EarlyErrors == {"missingDsn", "emptySQL", "tooLarge", "splitError",
                "noStatements", "tooManyStatements", "parseError", "openError"}

BlockLists ==
    UNION {[1..n -> UNION {[1..m -> StmtKinds] : m \in 0..MaxStmts}] :
              n \in 1..MaxBlocks}

\* len(trimmed) > 100*1024, len(stmts) > 100
MaxSQLBytes == 100 * 1024
MaxStatements == 100

\* the length of the trimmed text
Sizes == {0, 1, MaxSQLBytes, MaxSQLBytes + 1}

\* the statements of a request, as ParseBlocks groups them: the blocks, the
\* number of marker statements around them, and the number of plain
\* statements that validate and stand before the first block's others;
\* no blocks at all when the split yields no statement
Leads == {0, MaxStatements - 4, MaxStatements}

BlockSize(lead, blocks, b) ==
    (IF b = 1 THEN lead ELSE 0) + Len(blocks[b])

Shapes ==
    {[lead |-> 0, markers |-> 0, blocks |-> <<>>]}
    \cup {x \in [lead : Leads, markers : {0, 2, 4}, blocks : BlockLists] :
            /\ x.markers >= 2 * (Len(x.blocks) - 1)
            /\ x.markers <= 2 * Len(x.blocks)
            /\ x.markers >= 2 * Cardinality({b \in DOMAIN x.blocks :
                                   BlockSize(x.lead, x.blocks, b) = 0})}

RECURSIVE SumLen(_)
SumLen(blocks) ==
    IF blocks = <<>> THEN 0 ELSE Len(Head(blocks)) + SumLen(Tail(blocks))

\* len(stmts)
StmtCount(x) == x.lead + x.markers + SumLen(x.blocks)

\* a faulty size check: a text of exactly 100 KiB is refused
TooLargeInclusive(size) == size >= MaxSQLBytes

\* len(trimmed) > 100*1024
TooLarge(size) == size > MaxSQLBytes

\* the first check of ValidateSQL that fails, "nil" when none does
EarlyCheck(req) ==
    IF req.dsn # "set" THEN "missingDsn"
    ELSE IF req.size = 0 THEN "emptySQL"
    ELSE IF TooLarge(req.size) THEN "tooLarge"
    ELSE IF req.splitErr THEN "splitError"
    ELSE IF StmtCount(req.shape) = 0 THEN "noStatements"
    ELSE IF StmtCount(req.shape) > MaxStatements THEN "tooManyStatements"
    ELSE IF req.parseErr THEN "parseError"
    ELSE "nil"

DefaultShape == [lead |-> 0, markers |-> 0, blocks |-> <<<<"plain">>>>]

DefaultRequest ==
    [dsn |-> "set", size |-> 1, splitErr |-> FALSE, shape |-> DefaultShape,
     parseErr |-> FALSE, openErr |-> FALSE, skip |-> FALSE, fn |-> FALSE]

\* the calls of ValidateSQL; what a failing check leaves unread is drawn once
Requests ==
    {[DefaultRequest EXCEPT !.dsn = d] : d \in {"missing", "blank"}}
    \cup {[DefaultRequest EXCEPT !.size = z, !.splitErr = e] :
            z \in Sizes, e \in BOOLEAN}
    \cup {[DefaultRequest EXCEPT !.size = z, !.shape = x, !.parseErr = e] :
            z \in {1, MaxSQLBytes}, e \in BOOLEAN,
            x \in {y \in Shapes : StmtCount(y) = 0
                                   \/ StmtCount(y) >= MaxStatements}}
    \cup {[DefaultRequest EXCEPT !.shape = x, !.openErr = TRUE] :
            x \in {y \in Shapes : StmtCount(y) \in {1, MaxStatements}}}
    \cup {[DefaultRequest EXCEPT !.size = MaxSQLBytes, !.shape = x,
                                 !.skip = skip, !.fn = fn] :
            skip \in BOOLEAN, fn \in BOOLEAN,
            x \in {y \in Shapes : StmtCount(y) \in 1..MaxStatements}}

ValIdle ==
    [pc |-> "idle", req |-> DefaultRequest, blocks |-> <<>>, lead |-> 0,
     skip |-> FALSE, fn |-> FALSE,
     b |-> 0, s |-> 0, open |-> FALSE, blockErr |-> "nil", cause |-> "nil",
     opened |-> 0, begun |-> 0, rolledBack |-> 0, committed |-> 0,
     executed |-> 0, asked |-> 0, ok |-> FALSE, err |-> "nil"]

\* FallbackConfirm: fn tells whether a ConfirmFunc is given, answer what it
\* returns ("yes", "no" or "error")
FallbackConfirm(fn, answer) ==
    IF ~fn THEN "ErrConfirmRequired"
    ELSE IF answer = "error" THEN "confirmError"
    ELSE IF answer = "no" THEN "ErrConfirmRequired"
    ELSE "nil"

\* ValidateSQL up to its loop over the blocks; val.opened counts the calls
\* of OpenDB
ValidateSQL(v, req) ==
    IF EarlyCheck(req) # "nil"
    THEN [v EXCEPT !.pc = "returned", !.req = req, !.ok = FALSE,
                   !.err = EarlyCheck(req)]
    ELSE IF req.openErr
    THEN [v EXCEPT !.pc = "returned", !.req = req, !.ok = FALSE,
                   !.err = "openError", !.opened = @ + 1]
    ELSE [v EXCEPT !.pc = "begin", !.req = req, !.blocks = req.shape.blocks,
                   !.lead = req.shape.lead, !.skip = req.skip, !.fn = req.fn,
                   !.b = 1, !.opened = @ + 1]

\* validateBlock: db.Begin, and the deferral of tx.Rollback
BeginBlock(v, beginOk) ==
    IF ~beginOk
    THEN [v EXCEPT !.pc = "returned", !.ok = FALSE, !.err = "beginError"]
    ELSE [v EXCEPT !.pc = IF v.b = 1 /\ v.lead > 0 THEN "lead" ELSE "stmt",
                   !.s = 1, !.open = TRUE,
                   !.blockErr = "nil", !.cause = "nil", !.begun = @ + 1]

\* validateBlock: the turns of the loop for the leading plain statements
\* of the first block, each validated by ValidateStmt
LeadStep(v) == [v EXCEPT !.pc = "stmt", !.executed = @ + v.lead]

\* a faulty fallback: a refusal is passed over and validation goes on
UnvalidatedGoesOn(v, reason, cause, answer) ==
    IF v.skip
    THEN [v EXCEPT !.s = @ + 1, !.asked = IF v.fn THEN @ + 1 ELSE @]
    ELSE [v EXCEPT !.pc = "deferred", !.blockErr = reason, !.cause = cause]

\* the statement falls to the confirmation fallback, or fails for want of it
Unvalidated(v, reason, cause, answer) ==
    IF v.skip
    THEN IF FallbackConfirm(v.fn, answer) # "nil"
         THEN [v EXCEPT !.pc = "deferred", !.blockErr = "confirmation failed",
                        !.cause = FallbackConfirm(v.fn, answer),
                        !.asked = IF v.fn THEN @ + 1 ELSE @]
         ELSE [v EXCEPT !.s = @ + 1, !.asked = @ + 1]
    ELSE [v EXCEPT !.pc = "deferred", !.blockErr = reason, !.cause = cause]

\* validateBlock: one turn of the loop over the statements of the block
BlockStep(v, answer, execOk) ==
    IF v.s > Len(v.blocks[v.b])
    THEN [v EXCEPT !.pc = "deferred", !.blockErr = "nil"]
    ELSE LET kind == v.blocks[v.b][v.s]
         IN  IF kind = "uncheckable"
             THEN Unvalidated(v, "statement not automatically checkable",
                              "ErrConfirmRequired", answer)
             ELSE IF kind = "nonTx"
             THEN Unvalidated(v, "cannot run in transaction", "nil", answer)
             ELSE IF execOk
             THEN [v EXCEPT !.s = @ + 1, !.executed = @ + 1]
             ELSE [v EXCEPT !.pc = "deferred", !.blockErr = "execution failed",
                            !.cause = "execError", !.executed = @ + 1]

\* a faulty validateBlock: tx.Rollback is called on the success path only
RollbackOnSuccess(v) ==
    IF v.blockErr = "nil"
    THEN [v EXCEPT !.open = FALSE, !.rolledBack = @ + 1]
    ELSE v

\* the deferred tx.Rollback of validateBlock
DeferredRollback(v) ==
    [v EXCEPT !.open = FALSE, !.rolledBack = @ + 1]

\* a faulty loop of ValidateSQL: the error of a block that is not the last
\* is dropped and the loop goes on to the next block
BlockReturnGoesOn(v) ==
    IF v.b < Len(v.blocks)
    THEN [v EXCEPT !.pc = "begin", !.b = @ + 1]
    ELSE IF v.blockErr # "nil"
    THEN [v EXCEPT !.pc = "returned", !.ok = FALSE, !.err = v.blockErr]
    ELSE [v EXCEPT !.pc = "returned", !.ok = TRUE, !.err = "nil"]

\* validateBlock returns to the loop of ValidateSQL
BlockReturn(v) ==
    IF v.blockErr # "nil"
    THEN [v EXCEPT !.pc = "returned", !.ok = FALSE, !.err = v.blockErr]
    ELSE IF v.b < Len(v.blocks)
    THEN [v EXCEPT !.pc = "begin", !.b = @ + 1]
    ELSE [v EXCEPT !.pc = "returned", !.ok = TRUE, !.err = "nil"]

(* ---------------------------- ValidateStmt ---------------------------- *)
(* Dialect.StatementType and Dialect.ValidateStmt of the three dialects.  *)
(* A statement is the sequence of its words, as strings.Fields gives      *)
(* them; vs.sent holds the texts handed to tx.ExecContext.                *)
Dialects == {"postgres", "mysql", "sqlite"}

Words ==
    {"SELECT", "select", "INSERT", "UPDATE", "DELETE", "WITH", "CREATE",
     "ALTER", "DROP", "TRUNCATE", "RENAME", "VACUUM", "EXPLAIN", "a"}

MaxWords == 2          \* a statement has at most this many words

Stmts == UNION {[1..n -> Words] : n \in 0..MaxWords}

\* strings.ToUpper on a word
UpperWord(w) == IF w = "select" THEN "SELECT" ELSE IF w = "a" THEN "A" ELSE w

\* the dml map of StatementType
dml(d) ==
    {"SELECT", "INSERT", "UPDATE", "DELETE"}
        \cup (IF d = "postgres" THEN {"WITH"} ELSE {})

\* the ddl map of StatementType
ddl(d) ==
    {"CREATE", "ALTER", "DROP"}
        \cup (IF d = "sqlite" THEN {} ELSE {"TRUNCATE", "RENAME"})

\* Dialect.StatementType
StatementType(d, stmt) ==
    IF stmt = <<>> THEN "UNKNOWN"
    ELSE IF UpperWord(stmt[1]) \in dml(d) THEN "DML"
    ELSE IF UpperWord(stmt[1]) \in ddl(d) THEN "DDL"
    ELSE "UNKNOWN"

\* Dialect.ValidateStmt: the text it hands to tx.ExecContext.  PostgreSQL
\* and MySQL send "EXPLAIN "+stmt for DML; SQLite sends stmt whatever it is
ValidateStmt(d, stmt) ==
    IF d # "sqlite" /\ StatementType(d, stmt) = "DML"
    THEN <<"EXPLAIN">> \o stmt
    ELSE stmt

\* the Manager instances that run Up against one database and directory
Instances == {1, 2}

\* what withRetry returns when it has not run
NoRun ==
    [st |-> [v |-> NilVersion, d |-> FALSE], err |-> "nil",
     errVer |-> NilVersion, calls |-> 0, ran |-> {}]

\* an instance before its call of Up: before and upFiles are the locals of
\* Up, r what withRetry returned, err what Up returned
InstIdle ==
    [i \in Instances |->
        [pc |-> "start", strict |-> FALSE, before |-> 0, upFiles |-> <<>>,
         r |-> NoRun, err |-> "nil"]]

VsIdle == [pc |-> "idle", d |-> "postgres", stmt |-> <<>>, sent |-> <<>>]


(* ------------------------- the process of main ------------------------ *)
(* cli.mgr tells whether initApp has built the Manager, cli.closed counts  *)
(* the calls of mgr.Close, cli.panic tells whether the process is          *)
(* panicking, cli.unknown whether the error's text holds "unknown command" *)
(* or "unknown flag", cli.code is the exit code (NoCode while running).    *)
NoCode == -1

CliIdle ==
    [pc |-> "none", mgr |-> FALSE, closed |-> 0, panic |-> FALSE,
     unknown |-> FALSE, code |-> NoCode]

\* main is entered: both deferred functions are registered
MainEnter(c) == [CliIdle EXCEPT !.pc = "execute"]

\* initApp in PreRunE: config.Load, GetBackend and NewManager
InitApp(c, ok) ==
    IF ok THEN [c EXCEPT !.pc = "run", !.mgr = TRUE]
    ELSE [c EXCEPT !.pc = "failed"]

\* RunE returns: nil, or an error
RunReturns(c, err, unknown) ==
    IF err = "nil" THEN [c EXCEPT !.pc = "returning"]
    ELSE [c EXCEPT !.pc = "failed", !.unknown = unknown]

\* if err := rootCmd.Execute(); err != nil { ... os.Exit(3) ... os.Exit(2) }:
\* os.Exit ends the process at once, the deferred functions do not run
ExitOnError(c) ==
    [c EXCEPT !.pc = "exited", !.code = IF c.unknown THEN 3 ELSE 2]

\* defer func() { if mgr != nil { _ = mgr.Close() } }()
DeferredClose(c) ==
    [c EXCEPT !.pc = "recover", !.closed = IF c.mgr THEN @ + 1 ELSE @]

\* the deferred panic handler: os.Exit(101) after a panic, else main returns
DeferredRecover(c) ==
    [c EXCEPT !.pc = "exited", !.code = IF c.panic THEN 101 ELSE 0]

(* ------------------------------ actions ------------------------------- *)
(* The commands of cmd/migrate/main.go.  Each runs in a process of its    *)
(* own, on a Manager built for it, against the database and the           *)
(* directory the earlier commands left.                                   *)

\* what a call leaves in the database
Effects(r) ==
    /\ Len(r.h) <= MaxHist
    /\ dbVersion' = r.st.v
    /\ dbDirty' = r.st.d
    /\ history' = r.h

Finish(r) ==
    /\ Effects(r)
    /\ UNCHANGED <<files, maxRetries, shaNotNull, shared, val, rt, sp, pb, cli, vs, inst>>

State == [v |-> dbVersion, d |-> dbDirty]

\* the inputs of a call that reaches the engine: what each attempt meets,
\* which migration of the plan fails if one does, and which file the
\* validator rejects; inputs that cannot differ in effect are drawn once
CallInputs(maxFail, maxVal) ==
    {i \in [outs : [1..(maxRetries + 1) -> Outcomes],
            failIdx : 1..maxFail, valFail : 0..maxVal] :
        /\ i.valFail > 0 => i.outs = [a \in 1..(maxRetries + 1) |-> "ok"]
        /\ i.failIdx > 1 => \E a \in 1..(maxRetries + 1) : i.outs[a] = "fail"
        /\ \A a \in 1..maxRetries :
               i.outs[a] # "transient" => i.outs[a + 1] = "ok"}

\* `up`: strictHash is set when the configured environment is production
UpInputs ==
    {[strict |-> strict, outs |-> i.outs, failIdx |-> i.failIdx,
      valFail |-> i.valFail] :
        strict \in BOOLEAN, i \in CallInputs(MaxVer, MaxVer)}

UpOf(x) ==
    UpCall(State, history, files, x.strict, maxRetries,
           x.outs, x.failIdx, x.valFail)

Up == \E x \in UpInputs : Finish(UpOf(x))

\* `down`
DownInputs == CallInputs(MaxVer, 0)

DownOf(i) ==
    DownCall(State, history, files, maxRetries, shaNotNull, i.outs, i.failIdx)

Down == \E i \in DownInputs : Finish(DownOf(i))

\* `rollback`: Steps(-1)
StepsInputs == CallInputs(MaxStep, 1)

StepsOf(n, i) ==
    StepsCall(n, State, history, files, maxRetries, shaNotNull,
              i.outs, i.failIdx, i.valFail)

Rollback == \E i \in StepsInputs : Finish(StepsOf(-1, i))

\* `safe-force <version>`
SafeForceTargets == (-1)..(MaxVer + 1)

SafeForceOf(target) ==
    SafeForceCall(target, State, history, files, shaNotNull)

SafeForce ==
    /\ \E target \in SafeForceTargets : Finish(SafeForceOf(target))

\* `commit`
CommitAllOf(out, k) == CommitAllCall(State, history, out, k)

CommitAll ==
    /\ \E out \in CommitOutcomes, k \in 0..MaxHist :
           Finish(CommitAllOf(out, k))

\* `status` and `version` read, and write nothing
ReadOnlyCall(st, h) == Result("nil", NilVersion, st, h, {}, 0, {})

StatusOrVersion ==
    /\ Finish(ReadOnlyCall(State, history))

\* the version after the larger of the schema version and the last file
nextVersion(st, fs) ==
    LET maxDB == IF st.v = NilVersion /\ ~st.d THEN 0 ELSE st.v
        maxFS == Max({0} \cup DOMAIN fs)
    IN  IF maxDB > maxFS THEN maxDB + 1 ELSE maxFS + 1

\* `create`: Generate writes the files of the next version
AddFile ==
    \E v \in {nextVersion(State, files)}, text \in Contents :
        /\ v <= MaxVer
        /\ files' = [x \in DOMAIN files \cup {v} |->
                        IF x = v THEN text ELSE files[x]]
        /\ UNCHANGED <<dbVersion, dbDirty, history, maxRetries, shaNotNull,
                       shared, val, rt, sp, pb, cli, vs, inst>>

\* the text of an existing up file is edited
EditFile ==
    \E v \in DOMAIN files, text \in Contents :
        /\ text # files[v]
        /\ files' = [files EXCEPT ![v] = text]
        /\ UNCHANGED <<dbVersion, dbDirty, history, maxRetries, shaNotNull,
                       shared, val, rt, sp, pb, cli, vs, inst>>

Init ==
    /\ dbVersion = NilVersion
    /\ dbDirty = FALSE
    /\ history = <<>>
    /\ files = [v \in {1} |-> "sqlA"]
    /\ maxRetries = MaxRetries
    /\ shaNotNull \in BOOLEAN
    /\ shared = FALSE
    /\ cli = CliIdle
    /\ vs = VsIdle
    /\ inst = InstIdle
    /\ val = ValIdle
    /\ rt = RtIdle
    /\ sp = SpIdle
    /\ pb = PbIdle

Next ==
    \/ Up
    \/ Down
    \/ Rollback
    \/ SafeForce
    \/ CommitAll
    \/ StatusOrVersion
    \/ AddFile
    \/ EditFile

Spec == Init /\ [][Next]_vars

(* The Manager as one of several clients of the database: the calls of Up, *)
(* Down and Steps(n) for every n, and SafeForce, on a directory holding    *)
(* every version, where an attempt can also meet the "dirtied" outcome.    *)
Steps ==
    \E n \in (-MaxStep)..MaxStep, i \in StepsInputs : Finish(StepsOf(n, i))

InitShared ==
    /\ dbVersion = NilVersion
    /\ dbDirty = FALSE
    /\ history = <<>>
    /\ files \in [1..MaxVer -> Contents]
    /\ maxRetries = MaxRetries
    /\ shaNotNull \in BOOLEAN
    /\ shared = TRUE
    /\ cli = CliIdle
    /\ vs = VsIdle
    /\ inst = InstIdle
    /\ val = ValIdle
    /\ rt = RtIdle
    /\ sp = SpIdle
    /\ pb = PbIdle

NextShared ==
    \/ Up
    \/ Down
    \/ Steps
    \/ SafeForce

SpecShared == InitShared /\ [][NextShared]_vars

(* The Manager as a library: every public method, with any argument.      *)
ForceVersions == (NilVersion - 1)..MaxVer

ForceOf(version) == ForceCall(version, State, history)

Force ==
    /\ \E version \in ForceVersions : Finish(ForceOf(version))

NextManager ==
    \/ Up
    \/ Down
    \/ Steps
    \/ Force
    \/ SafeForce
    \/ CommitAll
    \/ StatusOrVersion

SpecManager == Init /\ [][NextManager]_vars

(* The validator on its own: one call of ValidateSQL with any blocks, any *)
(* options, any answer of the callback and any outcome of each statement. *)
ManagerVars ==
    <<dbVersion, dbDirty, history, files, maxRetries, shaNotNull, shared>>

VCall ==
    /\ val.pc = "idle"
    /\ \E req \in Requests : val' = ValidateSQL(val, req)
    /\ UNCHANGED <<ManagerVars, rt, sp, pb, cli, vs, inst>>

VLead ==
    /\ val.pc = "lead"
    /\ val' = LeadStep(val)
    /\ UNCHANGED <<ManagerVars, rt, sp, pb, cli, vs, inst>>

VBegin ==
    \E beginOk \in BOOLEAN :
        /\ val.pc = "begin"
        /\ val' = BeginBlock(val, beginOk)
        /\ UNCHANGED <<ManagerVars, rt, sp, pb, cli, vs, inst>>

VStmt ==
    \E answer \in {"yes", "no", "error"}, execOk \in BOOLEAN :
        /\ val.pc = "stmt"
        /\ val' = BlockStep(val, answer, execOk)
        /\ UNCHANGED <<ManagerVars, rt, sp, pb, cli, vs, inst>>

VDeferred ==
    /\ val.pc = "deferred"
    /\ val' = BlockReturn(DeferredRollback(val))
    /\ UNCHANGED <<ManagerVars, rt, sp, pb, cli, vs, inst>>

NextValidate ==
    \/ VCall
    \/ VBegin
    \/ VLead
    \/ VStmt
    \/ VDeferred

SpecValidate == Init /\ [][NextValidate]_vars


(* The command line, process after process: main builds the Manager in   *)
(* initApp, runs one command on it, and ends by returning, by os.Exit on  *)
(* an error, or through the panic handler.                                *)
CliVars ==
    <<files, maxRetries, shaNotNull, shared, val, rt, sp, pb, vs, inst>>

\* what the command of the process can return and leave in the database
CommandResults ==
    {UpOf(x) : x \in UpInputs}
    \cup {StepsOf(-1, i) : i \in StepsInputs}
    \cup {SafeForceOf(target) : target \in SafeForceTargets}
    \cup {ReadOnlyCall(State, history)}

CMain ==
    /\ cli.pc \in {"none", "exited"}
    /\ cli' = MainEnter(cli)
    /\ UNCHANGED <<dbVersion, dbDirty, history, CliVars>>

\* cobra rejects an unknown command or flag before PreRunE
CUnknown ==
    /\ cli.pc = "execute"
    /\ cli' = [cli EXCEPT !.pc = "failed", !.unknown = TRUE]
    /\ UNCHANGED <<dbVersion, dbDirty, history, CliVars>>

CInitApp ==
    /\ cli.pc = "execute"
    /\ \E ok \in BOOLEAN : cli' = InitApp(cli, ok)
    /\ UNCHANGED <<dbVersion, dbDirty, history, CliVars>>

CRun ==
    /\ cli.pc = "run"
    /\ \E r \in CommandResults, unknown \in BOOLEAN :
           /\ r.err = "nil" => ~unknown
           /\ Effects(r)
           /\ cli' = RunReturns(cli, r.err, unknown)
    /\ UNCHANGED CliVars

\* a panic in initApp or in the command
CPanic ==
    /\ cli.pc \in {"execute", "run"}
    /\ cli' = [cli EXCEPT !.pc = "returning", !.panic = TRUE]
    /\ UNCHANGED <<dbVersion, dbDirty, history, CliVars>>

CExitOnError ==
    /\ cli.pc = "failed"
    /\ cli' = ExitOnError(cli)
    /\ UNCHANGED <<dbVersion, dbDirty, history, CliVars>>

\* main returns or panics: the deferred functions run, the last first
CDeferredClose ==
    /\ cli.pc = "returning"
    /\ cli' = DeferredClose(cli)
    /\ UNCHANGED <<dbVersion, dbDirty, history, CliVars>>

CDeferredRecover ==
    /\ cli.pc = "recover"
    /\ cli' = DeferredRecover(cli)
    /\ UNCHANGED <<dbVersion, dbDirty, history, CliVars>>

NextCli ==
    \/ CMain
    \/ CUnknown
    \/ CInitApp
    \/ CRun
    \/ CPanic
    \/ CExitOnError
    \/ CDeferredClose
    \/ CDeferredRecover

SpecCli == Init /\ [][NextCli]_vars

(* withRetry on its own: a Manager built with any bound, op returning any *)
(* result at each call.                                                   *)
RCall ==
    /\ rt.pc = "idle"
    /\ rt' = RetryEnter(rt)
    /\ UNCHANGED <<ManagerVars, val, sp, pb, cli, vs, inst>>

RAttempt ==
    \E e \in OpResults :
        /\ rt.pc = "loop"
        /\ RetryGoesOn(rt, maxRetries)
        /\ rt' = RetryBody(rt, e)
        /\ UNCHANGED <<ManagerVars, val, sp, pb, cli, vs, inst>>

RReturn ==
    /\ rt.pc = "loop"
    /\ ~RetryGoesOn(rt, maxRetries)
    /\ rt' = RetryExhausted(rt)
    /\ UNCHANGED <<ManagerVars, val, sp, pb, cli, vs, inst>>

InitRetry ==
    /\ dbVersion = NilVersion
    /\ dbDirty = FALSE
    /\ history = <<>>
    /\ files = [v \in {1} |-> "sqlA"]
    /\ maxRetries \in RetryBounds
    /\ shaNotNull \in BOOLEAN
    /\ shared = FALSE
    /\ cli = CliIdle
    /\ vs = VsIdle
    /\ inst = InstIdle
    /\ val = ValIdle
    /\ rt = RtIdle
    /\ sp = SpIdle
    /\ pb = PbIdle

NextRetry ==
    \/ RCall
    \/ RAttempt
    \/ RReturn

SpecRetry == InitRetry /\ [][NextRetry]_vars

\* GenericSplit is entered: the locals are zero
SCall ==
    /\ sp.pc = "idle"
    /\ sp' = [sp EXCEPT !.pc = "loop"]
    /\ UNCHANGED <<ManagerVars, val, rt, pb, cli, vs, inst>>

\* for i := 0; i < len(sqlStr); i++ { ... }
SByte ==
    /\ sp.pc = "loop"
    /\ sp.i <= Len(sp.text)
    /\ sp' = SplitStep(sp)
    /\ UNCHANGED <<ManagerVars, val, rt, pb, cli, vs, inst>>

\* flush(); return stmts, nil
SReturn ==
    /\ sp.pc = "loop"
    /\ sp.i > Len(sp.text)
    /\ sp' = [Flush(sp) EXCEPT !.pc = "returned"]
    /\ UNCHANGED <<ManagerVars, val, rt, pb, cli, vs, inst>>

InitSplit ==
    /\ dbVersion = NilVersion
    /\ dbDirty = FALSE
    /\ history = <<>>
    /\ files = [v \in {1} |-> "sqlA"]
    /\ maxRetries = MaxRetries
    /\ shaNotNull = TRUE
    /\ shared = FALSE
    /\ cli = CliIdle
    /\ vs = VsIdle
    /\ inst = InstIdle
    /\ val = ValIdle
    /\ rt = RtIdle
    /\ pb = PbIdle
    /\ sp \in {[SpIdle EXCEPT !.text = t] : t \in Texts}

NextSplit == SCall \/ SByte \/ SReturn

SpecSplit == InitSplit /\ [][NextSplit]_vars

\* ParseBlocks is entered
PCall ==
    /\ pb.pc = "idle"
    /\ pb' = [pb EXCEPT !.pc = "loop"]
    /\ UNCHANGED <<ManagerVars, val, rt, sp, cli, vs, inst>>

\* for _, s := range stmts { ... }
PStmt ==
    /\ pb.pc = "loop"
    /\ pb.k <= Len(pb.stmts)
    /\ pb' = BlockIter(pb)
    /\ UNCHANGED <<ManagerVars, val, rt, sp, cli, vs, inst>>

\* the checks after the loop and the return
PReturn ==
    /\ pb.pc = "loop"
    /\ pb.k > Len(pb.stmts)
    /\ pb' = BlocksReturn(pb)
    /\ UNCHANGED <<ManagerVars, val, rt, sp, cli, vs, inst>>

InitBlocks ==
    /\ dbVersion = NilVersion
    /\ dbDirty = FALSE
    /\ history = <<>>
    /\ files = [v \in {1} |-> "sqlA"]
    /\ maxRetries = MaxRetries
    /\ shaNotNull = TRUE
    /\ shared = FALSE
    /\ cli = CliIdle
    /\ vs = VsIdle
    /\ inst = InstIdle
    /\ val = ValIdle
    /\ rt = RtIdle
    /\ sp = SpIdle
    /\ pb \in {[PbIdle EXCEPT !.stmts = in] : in \in Inputs}

NextBlocks == PCall \/ PStmt \/ PReturn

SpecBlocks == InitBlocks /\ [][NextBlocks]_vars

(* One call of ValidateStmt, of any dialect, with any statement.          *)
\* ValidateStmt is entered
TCall ==
    /\ vs.pc = "idle"
    /\ vs' = [vs EXCEPT !.pc = "exec"]
    /\ UNCHANGED <<ManagerVars, val, rt, sp, pb, cli, inst>>

\* tx.ExecContext(ctx, ...), whose error is returned
TExec ==
    /\ vs.pc = "exec"
    /\ vs' = [vs EXCEPT !.pc = "returned",
                        !.sent = Append(@, ValidateStmt(vs.d, vs.stmt))]
    /\ UNCHANGED <<ManagerVars, val, rt, sp, pb, cli, inst>>

InitStmt ==
    /\ dbVersion = NilVersion
    /\ dbDirty = FALSE
    /\ history = <<>>
    /\ files = [v \in {1} |-> "sqlA"]
    /\ maxRetries = MaxRetries
    /\ shaNotNull = TRUE
    /\ shared = FALSE
    /\ cli = CliIdle
    /\ inst = InstIdle
    /\ val = ValIdle
    /\ rt = RtIdle
    /\ sp = SpIdle
    /\ pb = PbIdle
    /\ vs \in {[VsIdle EXCEPT !.d = d, !.stmt = stmt] :
                  d \in Dialects, stmt \in Stmts}

NextStmt == TCall \/ TExec

SpecStmt == InitStmt /\ [][NextStmt]_vars

(* Two Manager instances run Up against the same database and the same   *)
(* directory.  The engine takes the database lock for the whole of m.Up;  *)
(* what an instance does before and after it holds no lock.               *)
\* Up before the engine: the version read, the candidates, steps 1 to 3
\* (the validator accepts every file)
IPrepare(i) ==
    /\ inst[i].pc = "start"
    /\ \E strict \in BOOLEAN :
         LET r == UpCall(State, history, files, strict, -1, <<>>, 1, 0)
         IN  inst' = [inst EXCEPT ![i] =
                 IF r.err # "nil" \/ pendingUpFiles(files, mVersion(State).version) = <<>>
                 THEN [@ EXCEPT !.pc = "returned", !.strict = strict,
                                !.err = r.err]
                 ELSE [@ EXCEPT !.pc = "ready", !.strict = strict,
                                !.before = mVersion(State).version,
                                !.upFiles = pendingUpFiles(files, mVersion(State).version)]]
    /\ UNCHANGED <<ManagerVars, val, rt, sp, pb, cli, vs>>

\* step 4: err = mgr.withRetry(mgr.m.Up), the engine under its lock
IApply(i) ==
    /\ inst[i].pc = "ready"
    /\ \E x \in CallInputs(MaxVer, 0) :
         LET r == withRetry("Up", 0, State, DOMAIN files, maxRetries,
                            x.outs, x.failIdx)
         IN  /\ dbVersion' = r.st.v
             /\ dbDirty' = r.st.d
             /\ inst' = [inst EXCEPT ![i].pc = "applied", ![i].r = r]
    /\ UNCHANGED <<history, files, maxRetries, shaNotNull, shared, val, rt,
                   sp, pb, cli, vs>>

\* the version read again, step 5 and the final switch
IRecord(i) ==
    /\ inst[i].pc = "applied"
    /\ LET res == UpRecord(history, files, inst[i].upFiles, inst[i].before,
                           {}, inst[i].r, VersionAfter(State))
       IN  /\ Len(res.h) <= MaxHist
           /\ history' = res.h
           /\ inst' = [inst EXCEPT ![i].pc = "returned", ![i].err = res.err]
    /\ UNCHANGED <<dbVersion, dbDirty, files, maxRetries, shaNotNull, shared,
                   val, rt, sp, pb, cli, vs>>

InitInst ==
    /\ dbVersion = NilVersion
    /\ dbDirty = FALSE
    /\ history = <<>>
    /\ files \in UNION {[1..n -> Contents] : n \in 1..MaxVer}
    /\ maxRetries = MaxRetries
    /\ shaNotNull \in BOOLEAN
    /\ shared = FALSE
    /\ cli = CliIdle
    /\ vs = VsIdle
    /\ inst = InstIdle
    /\ val = ValIdle
    /\ rt = RtIdle
    /\ sp = SpIdle
    /\ pb = PbIdle

NextInst == \E i \in Instances : IPrepare(i) \/ IApply(i) \/ IRecord(i)

SpecInst == InitInst /\ [][NextInst]_vars

(* ------------------------------ properties ---------------------------- *)
(* A property of a Manager method is stated of every call the method can  *)
(* answer in the current state: of its result for every input.            *)

\* the version and the dirty flag as the Manager reads them
Cur == mVersion(State)

\* the pending candidates: the on-disk versions above the current one
Candidates == {v \in DOMAIN files : v > Cur.version}

\* some history row of version v has committed = true
CommittedRow(v) ==
    \E k \in 1..Len(history) : history[k].version = v /\ history[k].committed

\* the call left the schema version, the dirty flag and the history alone
Untouched(r) == r.st = State /\ r.h = history

\* the call never invoked the engine
NoEngine(r) == r.calls = 0 /\ r.ran = {}

\* C1: once some history row of version v is committed, no Steps(n) with
\* n < 0 takes the schema version from v or above to below v.
C1_CommittedNeverRolledBack ==
    \A n \in (-MaxStep)..(-1), i \in StepsInputs, v \in 1..MaxVer :
        (CommittedRow(v) /\ dbVersion >= v) => StepsOf(n, i).st.v >= v

\* C2: with the schema version dirty at v, Up, Down and Steps(n) for every n
\* return the error that names v, and do not invoke the engine.
DirtyRefusal(r) ==
    r.err = "dirty" /\ r.errVer = dbVersion /\ NoEngine(r)

C3_CommittedCandidateRefused ==
    (~dbDirty /\ \E v \in Candidates : CommittedRow(v)) =>
        \A x \in UpInputs :
            UpOf(x).err = "committed" /\ NoEngine(UpOf(x)) /\ Untouched(UpOf(x))

\* C4: while any history row is committed, Down fails without invoking the
\* engine and leaves schema version and history as they are; on a database
\* read as clean the error is the "committed" one.
C4_DownGlobalLock ==
    (\E k \in 1..Len(history) : history[k].committed) =>
        \A i \in DownInputs :
            /\ DownOf(i).err \in {"dirty", "committed"}
            /\ ~Cur.dirty => DownOf(i).err = "committed"
            /\ NoEngine(DownOf(i))
            /\ Untouched(DownOf(i))

\* a clean database above nil whose current version Steps(-1) would roll
\* back (its newest row is not committed), which Down refuses all the same
C4_Witness ==
    /\ ~dbDirty /\ dbVersion >= 1
    /\ CommittedRow(1)
    /\ ~VersionCommitted(history, dbVersion)
    /\ \E i \in StepsInputs : StepsOf(-1, i).err = "nil"
    /\ \E i \in DownInputs : i.outs[1] = "ok" /\ DownOf(i).err = "committed"

\* C5: SafeForce(target) succeeds only with the database dirty at c,
\* target = c - 1, no committed row of target and target at most the highest
\* on-disk version, and then leaves Clean(target) and one more history row,
\* `safe-force` of target; dirty at c, an on-disk target without committed
\* row other than c - 1 gets the error "only allowed force to c - 1".
C5_SafeForceWindow ==
    \A target \in SafeForceTargets :
        /\ SafeForceOf(target).err = "nil" =>
               /\ dbDirty /\ target = dbVersion - 1
               /\ ~CommittedRow(target)
               /\ target <= Max(DOMAIN files)
               /\ SafeForceOf(target).st = [v |-> target, d |-> FALSE]
               /\ SafeForceOf(target).h =
                      Append(history, [action |-> "safe-force",
                                       version |-> target,
                                       executed_by |-> actor,
                                       committed |-> FALSE, sha256 |-> "NULL"])
        /\ ( /\ dbDirty /\ dbVersion >= 0
             /\ target \in DOMAIN files
             /\ ~CommittedRow(target)
             /\ target # dbVersion - 1 ) =>
               /\ SafeForceOf(target).err = "window"
               /\ SafeForceOf(target).errVer = dbVersion
               /\ Untouched(SafeForceOf(target))

\* C6: if the validator rejects a candidate, Up returns an error, never
\* invokes the engine and leaves schema version and history as they are;
\* the engine is invoked only after every candidate went to the validator
\* and passed.
C6_ValidationBeforeApply ==
    \A x \in UpInputs :
        /\ x.valFail \in 1..Cardinality(Candidates) =>
               UpOf(x).err # "nil" /\ NoEngine(UpOf(x)) /\ Untouched(UpOf(x))
        /\ ~NoEngine(UpOf(x)) =>
               /\ UpOf(x).validated = Candidates
               /\ x.valFail \notin 1..Cardinality(Candidates)

C6_Witness ==
    /\ Cardinality(Candidates) = 2
    /\ \E x \in UpInputs :
           /\ x.valFail = 2
           /\ UpOf(x).err = "invalidSQL"
           /\ UpOf(x).validated = Candidates
    /\ \E x \in UpInputs : UpOf(x).err = "nil" /\ UpOf(x).ran = Candidates

\* C7: whatever the blocks, the options, the answers and the outcomes, no
\* transaction of the validator is committed, each one it begins is rolled
\* back, and when ValidateSQL returns as many were rolled back as begun.
C7_RolledBackNeverCommitted ==
    /\ val.committed = 0
    /\ val.begun = val.rolledBack + (IF val.open THEN 1 ELSE 0)
    /\ val.pc = "returned" => ~val.open /\ val.begun = val.rolledBack

\* ValidateSQL returned a failure of the second block, two transactions begun
C7_Witness ==
    /\ val.pc = "returned"
    /\ ~val.ok
    /\ val.err \in {"execution failed", "confirmation failed",
                    "statement not automatically checkable",
                    "cannot run in transaction"}
    /\ val.begun = 2
    /\ val.rolledBack = 2

\* version v has a committed `up` row with a hash, and the text of v's file
\* no longer has that hash
DriftedSinceCommit(v) ==
    \E k \in 1..Len(history) :
        /\ history[k].action = "up" /\ history[k].version = v
        /\ history[k].committed
        /\ history[k].sha256 \notin {"NULL", "", fileHash(files[v])}

\* C8 as stated: in strict-hash mode on a clean database, a candidate that
\* drifted since its commit makes Up fail with the hash-mismatch error and no other, before
\* any file is validated or applied.
C8_HashMismatchOnly ==
    \A x \in UpInputs, v \in Candidates :
        (x.strict /\ ~dbDirty /\ DriftedSinceCommit(v)) =>
            /\ UpOf(x).err = "hashMismatch"
            /\ UpOf(x).validated = {}
            /\ NoEngine(UpOf(x))

\* the newest committed `up` row of v holds a hash, which is not the hash
\* of the text of v's file
Drifted(v) ==
    /\ CommittedUpRows(history, v) # {}
    /\ history[Max(CommittedUpRows(history, v))].sha256
           \notin {"NULL", "", fileHash(files[v])}

\* C8, amended: in strict-hash mode, a candidate that drifted makes Up fail
\* before any file is validated or applied, schema version and history left
\* alone: with the "committed" error exactly when the newest row of some
\* candidate is committed, and else with an error of the hash check.
C8_DriftRefused ==
    \A x \in UpInputs, v \in Candidates :
        (x.strict /\ ~Cur.dirty /\ Drifted(v)) =>
            /\ UpOf(x).err \in {"committed", "hashMismatch", "hashQuery"}
            /\ UpOf(x).err = "committed" <=>
                   \E u \in Candidates : VersionCommitted(history, u)
            /\ UpOf(x).validated = {}
            /\ NoEngine(UpOf(x))
            /\ Untouched(UpOf(x))

\* a clean database on which the hash check itself refuses a drifted file
C8_Witness ==
    /\ ~dbDirty
    /\ \E x \in UpInputs, v \in Candidates :
           /\ x.strict /\ Drifted(v)
           /\ UpOf(x).err = "hashMismatch"
           /\ UpOf(x).errVer = v

\* C9: on a database read as clean with no on-disk version above the
\* current one, Up returns success without validating, without invoking
\* the engine, without a new history row, and moves neither counter nor the
\* schema version.
C9_UpNothingPending ==
    (~Cur.dirty /\ Candidates = {}) =>
        \A x \in UpInputs :
            /\ UpOf(x).err = "nil"
            /\ UpOf(x).validated = {}
            /\ NoEngine(UpOf(x))
            /\ Untouched(UpOf(x))
            /\ UpOf(x).inc = 0 /\ UpOf(x).dec = 0

\* an up-to-date database: every on-disk version applied, Up answers success
C9_Witness ==
    /\ ~dbDirty /\ dbVersion = MaxVer
    /\ DOMAIN files = 1..MaxVer
    /\ Candidates = {}
    /\ history # <<>>
    /\ \E x \in UpInputs : UpOf(x).err = "nil" /\ x.strict

\* the lists of names a listing of the directory can hand to step 1 of Up
CandidateLists == {SortStrings(S) : S \in SUBSET FileNames(files) \ {{}}}

\* the versions of the rows a call appended to the history
Recorded(r) == {r.h[k].version : k \in (Len(history) + 1)..Len(r.h)}

\* C10: a candidate at or below the version read at the start makes Up fail
\* with no file validated or executed and nothing changed; and no call of
\* Up validates, executes or records a file at or below the current
\* recorded version.
C10_MonotonicVersionGuard ==
    /\ \A x \in UpInputs, cands \in CandidateLists :
           LET r == UpFrom(State, history, files, cands, x.strict,
                           maxRetries, x.outs, x.failIdx, x.valFail)
           IN  (~Cur.dirty /\ \E k \in 1..Len(cands) :
                                  ParseUint(cands[k]) <= Cur.version) =>
                   /\ r.err # "nil"
                   /\ r.validated = {}
                   /\ NoEngine(r)
                   /\ Untouched(r)
    /\ \A x \in UpInputs :
           \A v \in UpOf(x).validated \cup UpOf(x).ran \cup Recorded(UpOf(x)) :
               v > dbVersion

\* a database at version 1 with the files of 1 and 2: Up applies and records
\* version 2 only, and a list naming version 1 is refused by step 1
C10_Witness ==
    /\ ~dbDirty /\ dbVersion = 1
    /\ DOMAIN files = {1, 2}
    /\ \E x \in UpInputs :
           /\ UpOf(x).err = "nil"
           /\ UpOf(x).validated = {2}
           /\ UpOf(x).ran = {2}
           /\ Recorded(UpOf(x)) = {2}
    /\ \E x \in UpInputs :
           UpFrom(State, history, files, <<Sprintf06(1), Sprintf06(2)>>,
                  x.strict, maxRetries, x.outs, x.failIdx, x.valFail).err
               = "lessOrEqual"

\* the errors with which a Manager call refuses its preconditions
PreconditionErrors ==
    {"dirty", "committed", "lessOrEqual", "hashMismatch",
     "notDirty", "window", "exceedsLast"}

\* the call changed nothing: schema row, history and both counters
ZeroMutation(r) == Untouched(r) /\ r.inc = 0 /\ r.dec = 0

\* C11: a call of Up, Down, Steps or SafeForce that returns a precondition
\* error leaves schema version, dirty flag, history rows and both counters
\* as they were before the call.
C11_PreconditionErrorsMutateNothing ==
    /\ \A x \in UpInputs :
           UpOf(x).err \in PreconditionErrors => ZeroMutation(UpOf(x))
    /\ \A x \in UpInputs, cands \in CandidateLists :
           LET r == UpFrom(State, history, files, cands, x.strict,
                           maxRetries, x.outs, x.failIdx, x.valFail)
           IN  r.err \in PreconditionErrors => ZeroMutation(r)
    /\ \A i \in DownInputs :
           DownOf(i).err \in PreconditionErrors => ZeroMutation(DownOf(i))
    /\ \A n \in (-MaxStep)..MaxStep, i \in StepsInputs :
           StepsOf(n, i).err \in PreconditionErrors => ZeroMutation(StepsOf(n, i))
    /\ \A target \in SafeForceTargets :
           SafeForceOf(target).err \in PreconditionErrors =>
               ZeroMutation(SafeForceOf(target))

\* dirty at a version with history: Up, Down and Steps answer the dirty
\* error, SafeForce the window error for one target and the error of a
\* target beyond the last file for another
C11_Witness ==
    /\ dbDirty /\ dbVersion >= 1 /\ history # <<>>
    /\ \E x \in UpInputs : UpOf(x).err = "dirty"
    /\ \E i \in DownInputs : DownOf(i).err = "dirty"
    /\ \E i \in StepsInputs : StepsOf(-1, i).err = "dirty"
    /\ \E target \in SafeForceTargets : SafeForceOf(target).err = "window"
    /\ \E target \in SafeForceTargets : SafeForceOf(target).err = "exceedsLast"

\* what withRetry returned in a call that reached the engine
EngineOutcome(kind, n, i) ==
    withRetry(kind, n, State, DOMAIN files, maxRetries, i.outs, i.failIdx)

\* the call reached the engine and the schema row it leaves is dirty at the
\* version the error names
NamesDirtyVersion(r) ==
    (r.calls > 0 /\ r.st.d) => (r.err # "nil" /\ r.errVer = r.st.v)

DirtyAfterIsError(r, w) ==
    (r.calls > 0 /\ r.st.d /\ r.st.v >= 0) =>
        /\ r.err # "nil"
        /\ w.err # "nil" => r.err = w.err
        /\ w.err = "nil" => r.err = "dirtyAfter" /\ r.errVer = r.st.v

MostCalls == IF maxRetries + 1 > 0 THEN maxRetries + 1 ELSE 0

\* the calls of op that returned nil or ErrNoChange
Succeeded == {k \in 1..Len(rt.outs) : rt.outs[k] \in {"nil", "ErrNoChange"}}

TagAt(text, i) ==
    LET ends == {j \in (i + 1)..Len(text) :
                    /\ text[j] = "$"
                    /\ \A k \in (i + 1)..(j - 1) : IsTagByte(text[k])}
    IN  IF text[i] = "$" /\ ends # {}
        THEN SubSeq(text, i, CHOOSE j \in ends : \A k \in ends : j <= k)
        ELSE <<>>

Times(n, label) == [k \in 1..n |-> label]

\* the construct each byte from i on lies in: "top" outside every construct,
\* "sq", "dq", "line", "block" inside a quoted string, a quoted identifier or
\* a comment (delimiters included), "open", "body", "close" for the tags and
\* the body of a dollar-quoted section
RECURSIVE Lex(_, _, _, _)
Lex(text, i, mode, tag) ==
    IF i > Len(text) THEN <<>>
    ELSE IF mode = "top" THEN
        IF HasPrefixAt(text, i, <<"-", "-">>)
            THEN Times(2, "line") \o Lex(text, i + 2, "line", tag)
        ELSE IF HasPrefixAt(text, i, <<"/", "*">>)
            THEN Times(2, "block") \o Lex(text, i + 2, "block", tag)
        ELSE IF text[i] = "'" THEN <<"sq">> \o Lex(text, i + 1, "sq", tag)
        ELSE IF text[i] = "\"" THEN <<"dq">> \o Lex(text, i + 1, "dq", tag)
        ELSE IF TagAt(text, i) # <<>>
            THEN Times(Len(TagAt(text, i)), "open")
                 \o Lex(text, i + Len(TagAt(text, i)), "dollar", TagAt(text, i))
        ELSE <<"top">> \o Lex(text, i + 1, "top", tag)
    ELSE IF mode = "line" THEN
        <<"line">> \o Lex(text, i + 1, IF text[i] = "\n" THEN "top" ELSE "line", tag)
    ELSE IF mode = "block" THEN
        IF HasPrefixAt(text, i, <<"*", "/">>)
            THEN Times(2, "block") \o Lex(text, i + 2, "top", tag)
        ELSE <<"block">> \o Lex(text, i + 1, "block", tag)
    ELSE IF mode = "sq" THEN
        IF HasPrefixAt(text, i, <<"'", "'">>)
            THEN Times(2, "sq") \o Lex(text, i + 2, "sq", tag)
        ELSE <<"sq">> \o Lex(text, i + 1, IF text[i] = "'" THEN "top" ELSE "sq", tag)
    ELSE IF mode = "dq" THEN
        IF HasPrefixAt(text, i, <<"\"", "\"">>)
            THEN Times(2, "dq") \o Lex(text, i + 2, "dq", tag)
        ELSE <<"dq">> \o Lex(text, i + 1, IF text[i] = "\"" THEN "top" ELSE "dq", tag)
    ELSE IF HasPrefixAt(text, i, tag)
        THEN Times(Len(tag), "close") \o Lex(text, i + Len(tag), "top", tag)
    ELSE <<"body">> \o Lex(text, i + 1, "dollar", tag)

Constructs(text) == Lex(text, 1, "top", <<>>)

\* the `;` outside every construct
TopSemis(text) ==
    {p \in 1..Len(text) : text[p] = ";" /\ Constructs(text)[p] = "top"}

\* the closed dollar-quoted sections <<a, b>>: opening tag and body are the
\* bytes a..b, and the closing tag follows
Sections(text) ==
    LET c == Constructs(text)
    IN  {ab \in (1..Len(text)) \X (1..Len(text)) :
            /\ ab[1] <= ab[2]
            /\ c[ab[1]] = "open"
            /\ (ab[1] = 1 \/ c[ab[1] - 1] # "open")
            /\ \A k \in ab[1]..ab[2] : c[k] \in {"open", "body"}
            /\ ab[2] < Len(text) /\ c[ab[2] + 1] = "close"}

IsPartOf(part, whole) ==
    \E k \in 0..(Len(whole) - Len(part)) :
        SubSeq(whole, k + 1, k + Len(part)) = part

HasSemi(text, ab) == \E p \in ab[1]..ab[2] : text[p] = ";"

\* C14: GenericSplit splits the text at a `;` only where that `;` lies
\* outside every single-quoted string, double-quoted identifier, line
\* comment, block comment and dollar-quoted section, and when it returns,
\* every closed dollar-quoted section lies, opening tag and body with its
\* semicolons, inside one of the returned statements.
C14_SplitOutsideOnly ==
    /\ sp.cuts \subseteq TopSemis(sp.text)
    /\ sp.pc = "returned" =>
        /\ Len(sp.stmts) <= Cardinality(sp.cuts) + 1
        /\ \A ab \in Sections(sp.text) :
              \E k \in 1..Len(sp.stmts) :
                  IsPartOf(SubSeq(sp.text, ab[1], ab[2]), sp.stmts[k])

\* GenericSplit has returned for a text with a `;` inside a dollar-quoted
\* section and a `;` outside at which it split
C14_Witness ==
    /\ sp.pc = "returned"
    /\ sp.cuts # {}
    /\ \E ab \in Sections(sp.text) : HasSemi(sp.text, ab)


(* ---- ParseBlocks ---- *)
\* a block is open before statement p: the last marker before p opens one
OpenBefore(in, p) ==
    \E q \in 1..(p - 1) :
        /\ IsBegin(in[q])
        /\ \A r \in (q + 1)..(p - 1) : ~IsBegin(in[r]) /\ ~IsCommit(in[r])

BlockErrors(in) ==
    \/ \E p \in 1..Len(in) : IsBegin(in[p]) /\ OpenBefore(in, p)
    \/ \E p \in 1..Len(in) : IsCommit(in[p]) /\ ~OpenBefore(in, p)
    \/ OpenBefore(in, Len(in) + 1)

IsPlain(s) == ~IsBegin(s) /\ ~IsCommit(s)

\* the pairs <<q, r>> of an opening marker and the marker that closes it
Brackets(in) ==
    {qr \in (1..Len(in)) \X (1..Len(in)) :
        /\ qr[1] < qr[2]
        /\ IsBegin(in[qr[1]]) /\ IsCommit(in[qr[2]])
        /\ \A r \in (qr[1] + 1)..(qr[2] - 1) : IsPlain(in[r])}

\* C15: ParseBlocks returns an error exactly when an opening marker lies
\* inside an open block, a closing marker lies outside every block or the
\* input ends inside a block; otherwise the statements between an opening
\* marker and its closing marker are one of the blocks, no block holds a
\* marker, and the blocks concatenated are the statements that are not
\* markers, in their order.
C15_ParseBlocks ==
    pb.pc = "returned" =>
        /\ (pb.err # "nil") = BlockErrors(pb.stmts)
        /\ pb.err = "nil" =>
            /\ \A qr \in Brackets(pb.stmts) :
                  \E b \in 1..Len(pb.blocks) :
                      pb.blocks[b] = SubSeq(pb.stmts, qr[1] + 1, qr[2] - 1)
            /\ \A b \in 1..Len(pb.blocks) : \A k \in 1..Len(pb.blocks[b]) :
                  IsPlain(pb.blocks[b][k])
            /\ Concat(pb.blocks) = SelectSeq(pb.stmts, IsPlain)

\* ParseBlocks has returned two blocks for [BEGIN, s1, s2, COMMIT, s3]: the
\* two statements between the markers, and the statement after them
C15_Witness ==
    /\ pb.pc = "returned" /\ pb.err = "nil"
    /\ Len(pb.stmts) = 5
    /\ Brackets(pb.stmts) = {<<1, 4>>}
    /\ pb.blocks = <<SubSeq(pb.stmts, 2, 3), <<pb.stmts[5]>>>>


(* ---- leaving the dirty state ---- *)
\* a step of a SafeForce call that returned success
SafeForceStep ==
    \E target \in SafeForceTargets :
        SafeForceOf(target).err = "nil" /\ Finish(SafeForceOf(target))

\* C16: over every sequence of calls of the public methods of the Manager,
\* a step that takes the schema row from dirty to clean is a step of a
\* successful SafeForce; Up, Down, Steps, Force, CommitAll, Status and
\* Version never clear the flag.
C16_OnlySafeForceClears ==
    [][(dbDirty /\ ~dbDirty') => SafeForceStep]_vars


(* ---- CommitAll ---- *)
\* C17: a CommitAll that returns success leaves every row of the history
\* with committed = true and every other column, the number of rows and the
\* schema row as they were; a CommitAll that returns an error, the update
\* having failed after any number of rows, leaves the history and the
\* schema row as they were.
C17_CommitAllAtomic ==
    \A out \in CommitOutcomes, k \in 0..MaxHist :
        /\ CommitAllOf(out, k).st = State
        /\ Len(CommitAllOf(out, k).h) = Len(history)
        /\ CommitAllOf(out, k).err = "nil" =>
               \A i \in 1..Len(history) :
                   CommitAllOf(out, k).h[i] =
                       [history[i] EXCEPT !.committed = TRUE]
        /\ CommitAllOf(out, k).err # "nil" => CommitAllOf(out, k).h = history

\* the history holds a committed row and two uncommitted ones; CommitAll
\* succeeds on it, and fails on it with the update stopped after two rows
C17_Witness ==
    /\ Len(history) >= 3
    /\ \E i \in 1..Len(history) : history[i].committed
    /\ Cardinality({i \in 1..Len(history) : ~history[i].committed}) >= 2
    /\ CommitAllOf("ok", 0).err = "nil"
    /\ CommitAllOf("ok", 0).h # history
    /\ CommitAllOf("execErr", 2).err = "execErr"
    /\ UpdateCommitted(history, 2) # history


(* ---- ValidateSQL before the database is opened ---- *)
\* the cases of the claim, read off the request
RefusedEarly(req) ==
    \/ req.dsn \in {"missing", "blank"}
    \/ req.size = 0
    \/ req.size > 100 * 1024
    \/ req.splitErr
    \/ StmtCount(req.shape) = 0
    \/ StmtCount(req.shape) > 100
    \/ req.parseErr

\* C18: a call of ValidateSQL with the DSN missing or blank, with a text
\* empty after trimming or longer than 100 KiB, or whose split fails or
\* yields no statement or more than 100, or whose block parsing fails,
\* returns (false, error) with OpenDB never called and no transaction
\* begun; every other call, a text of exactly 100 KiB and a list of
\* exactly 100 statements included, goes on to OpenDB.
C18_EarlyRefusal ==
    val.pc # "idle" =>
        IF RefusedEarly(val.req)
        THEN /\ val.pc = "returned" /\ ~val.ok
             /\ val.err \in EarlyErrors \ {"openError"}
             /\ val.opened = 0 /\ val.begun = 0
        ELSE val.opened = 1 /\ val.err \notin EarlyErrors \ {"openError"}

\* ValidateSQL has refused a text of exactly 100 KiB for its 101 statements
C18_Witness ==
    /\ val.pc = "returned" /\ ~val.ok
    /\ val.req.size = 100 * 1024
    /\ StmtCount(val.req.shape) = 101
    /\ val.err = "tooManyStatements"
    /\ val.opened = 0

\* ValidateSQL has validated a text of exactly 100 KiB and 100 statements
C18_Boundary ==
    /\ val.pc = "returned" /\ val.ok
    /\ val.req.size = 100 * 1024
    /\ StmtCount(val.req.shape) = 100
    /\ val.executed = 100


(* ---- confirmation ---- *)
\* validateBlock stands at a statement that is not checkable, or not safe
\* in a transaction
AtUnvalidated ==
    /\ val.pc = "stmt"
    /\ val.s <= Len(val.blocks[val.b])
    /\ val.blocks[val.b][val.s] \in {"uncheckable", "nonTx"}

Answers == {"yes", "no", "error"}

\* C19: with no callback, or with the fallback switched off, a statement
\* that is not checkable, and likewise one that is not safe in a
\* transaction, fails the validation with an error whose cause is
\* ErrConfirmRequired, without being executed.
C19_ConfirmRequired ==
    AtUnvalidated /\ (~val.fn \/ ~val.skip) =>
        \A answer \in Answers, execOk \in BOOLEAN :
            /\ BlockStep(val, answer, execOk).pc = "deferred"
            /\ BlockStep(val, answer, execOk).blockErr # "nil"
            /\ BlockStep(val, answer, execOk).cause = "ErrConfirmRequired"
            /\ BlockStep(val, answer, execOk).executed = val.executed

\* the statements that need confirmation and that validateBlock has left
\* behind: those of the blocks before the current one, and those of the
\* current block before the current statement
Needing(block, upTo) ==
    Cardinality({k \in 1..upTo : k <= Len(block) /\ block[k] # "plain"})

RECURSIVE NeedingBefore(_, _)
NeedingBefore(blocks, b) ==
    IF b <= 1 THEN 0
    ELSE NeedingBefore(blocks, b - 1)
         + Needing(blocks[b - 1], Len(blocks[b - 1]))

LeftBehind(v) ==
    IF v.blocks = <<>> THEN 0
    ELSE NeedingBefore(v.blocks, v.b)
         + (IF v.pc \in {"begin", "lead"} \/ v.err = "beginError" THEN 0
            ELSE Needing(v.blocks[v.b], v.s - 1))

\* what the claim says of the step at such a statement
AskedOnce(w, answer) ==
    /\ w.asked = val.asked + 1
    /\ w.executed = val.executed
    /\ answer = "yes" =>
           w.pc = "stmt" /\ w.s = val.s + 1 /\ w.b = val.b
    /\ answer # "yes" => w.pc = "deferred" /\ w.blockErr # "nil"

\* C20 as stated: with a callback given, the callback is called once for
\* each statement that is not checkable or not safe in a transaction; on
\* yes the statement is passed over unexecuted and validation goes on, on
\* no or an error of the callback validation fails at once.
C20_CallbackOnce ==
    AtUnvalidated /\ val.fn =>
        \A answer \in Answers, execOk \in BOOLEAN :
            AskedOnce(BlockStep(val, answer, execOk), answer)

\* C20: with a callback given and the fallback switched on
\* (SkipOnConfirmation), the callback is called once for each statement
\* that validation reaches and that is not checkable or not safe in a
\* transaction; on yes the statement is passed over unexecuted and
\* validation goes on with the next one, on no or an error of the callback
\* validation fails at once and the callback is not called again.
C20_CallbackOnceWhenEnabled ==
    /\ AtUnvalidated /\ val.fn /\ val.skip =>
        \A answer \in Answers, execOk \in BOOLEAN :
            AskedOnce(BlockStep(val, answer, execOk), answer)
    /\ val.fn /\ val.skip =>
        val.asked = LeftBehind(val)
                    + (IF "confirmation failed" \in {val.blockErr, val.err}
                       THEN 1 ELSE 0)

\* the callback was called twice: it said yes to a statement, which was not
\* executed, and then no to the next, which failed the validation
C20_Witness ==
    /\ val.pc = "returned" /\ ~val.ok
    /\ val.fn /\ val.skip
    /\ val.err = "confirmation failed"
    /\ val.asked = 2
    /\ val.executed = 0
    /\ LeftBehind(val) = 1


(* ---- the rows Up writes ---- *)
\* the history h holds an `up` row of version v with the hash of v's file
HasUpRow(h, v) ==
    \E i \in 1..Len(h) :
        /\ h[i].action = "up"
        /\ h[i].version = v
        /\ h[i].sha256 = fileHash(files[v])

\* the versions with a file on disk in (before, after] of the call
Crossed(r) ==
    {v \in DOMAIN files :
        v > mVersion(State).version /\ v <= mVersion(r.st).version}

\* C21: once the engine has run under Up and the schema version read after
\* it is above the version read before, the history holds an `up` row with
\* the file's hash for every version on disk in (before, after], whether
\* the engine reported success or an error after some versions.
C21_UpRowsWhateverOutcome ==
    \A x \in UpInputs :
        UpOf(x).calls > 0 =>
            \A v \in Crossed(UpOf(x)) : HasUpRow(UpOf(x).h, v)


(* ---- Status and Version ---- *)
\* C22: Status and Version leave the schema row, the history and both
\* counters as they are, in a clean and in a dirty database; Status returns
\* the version the engine reports and, as pending, the number of up files
\* on disk whose version is above it, whatever the history holds.
C22_StatusReadsOnly ==
    /\ ReadOnlyCall(State, history).st = State
    /\ ReadOnlyCall(State, history).h = history
    /\ ReadOnlyCall(State, history).inc = 0
    /\ ReadOnlyCall(State, history).dec = 0
    /\ ReadOnlyCall(State, history).err = "nil"
    /\ Status(State, files).ver =
           (IF dbVersion = NilVersion THEN 0 ELSE dbVersion)
    /\ Status(State, files).pending =
           Cardinality({v \in DOMAIN files : v > Status(State, files).ver})

\* Status is called on a dirty database with a history, one file pending
\* and one not
C22_Witness ==
    /\ dbDirty
    /\ history # <<>>
    /\ Status(State, files).ver = 1
    /\ Status(State, files).pending = 1
    /\ Cardinality(DOMAIN files) = 2


(* ---- the Manager is closed when the process ends ---- *)
\* C23: whenever the process of the command line has ended with a Manager
\* built (the command returned, the command failed and the process exited
\* with code 2 or 3, or a panic was caught and the process exited with
\* code 101), mgr.Close has run exactly once.
C23_ClosedOnceOnExit ==
    cli.pc = "exited" /\ cli.mgr => cli.closed = 1


(* ---- CommitAll on a dirty database ---- *)
\* C24: called while the schema row is dirty, CommitAll returns an error
\* and leaves the committed flag of every history row as it was.
C24_CommitAllNeedsClean ==
    dbDirty =>
        \A out \in CommitOutcomes, k \in 0..MaxHist :
            /\ CommitAllOf(out, k).err # "nil"
            /\ CommitAllOf(out, k).h = history


(* ---- the down file before a rollback ---- *)
\* C25: Steps(n) with n < 0 on a clean database at a version whose down
\* file is on disk under its six-digit name sends that file to the
\* validator before the engine is invoked, and does not invoke the engine
\* when the validator rejects the file.
C25_DownFileValidated ==
    ~dbDirty /\ dbVersion \in DOMAIN files =>
        \A n \in (-MaxStep)..(-1), i \in StepsInputs :
            /\ StepsOf(n, i).calls > 0 => dbVersion \in StepsOf(n, i).validated
            /\ i.valFail >= 1 => StepsOf(n, i).calls = 0


(* ---- the audit row of a successful call ---- *)
\* the call returned success, changed the schema row and appended no row
Unaudited(r) ==
    r.err = "nil" /\ r.st # State /\ Len(r.h) <= Len(history)

\* C26: with the migrations_history table of the init template (sha256 NOT
\* NULL), every call of Up, Down, Steps or SafeForce that returns success
\* and has changed the schema version or the dirty flag has appended at
\* least one history row.
C26_SuccessIsAudited ==
    shaNotNull =>
        /\ \A x \in UpInputs : ~Unaudited(UpOf(x))
        /\ \A i \in DownInputs : ~Unaudited(DownOf(i))
        /\ \A n \in (-MaxStep)..MaxStep, i \in StepsInputs :
               ~Unaudited(StepsOf(n, i))
        /\ \A target \in SafeForceTargets : ~Unaudited(SafeForceOf(target))


(* ---- the applied and rollback counters ---- *)
\* the versions m.Version() reports before and after the call
Before == mVersion(State).version
After(r) == mVersion(r.st).version

\* the call added its version delta to the applied counter only
CountsApplied(r) == r.inc = After(r) - Before /\ r.dec = 0

\* the call added its version delta to the rollback counter only
CountsRollback(r) == r.dec = Before - After(r) /\ r.inc = 0

CountsNothing(r) == r.inc = 0 /\ r.dec = 0

\* what the claim says of Down and Steps
DownAndStepsCount ==
    /\ \A i \in DownInputs :
           IF DownOf(i).err = "nil" THEN CountsRollback(DownOf(i))
           ELSE CountsNothing(DownOf(i))
    /\ \A n \in (-MaxStep)..MaxStep, i \in StepsInputs :
           IF StepsOf(n, i).err # "nil" THEN CountsNothing(StepsOf(n, i))
           ELSE IF n > 0 THEN CountsApplied(StepsOf(n, i))
           ELSE IF n < 0 THEN CountsRollback(StepsOf(n, i))
           ELSE CountsNothing(StepsOf(n, i))

\* C27: a successful Up adds after - before to the applied counter, as
\* does a successful Steps(n > 0); a successful Down or Steps(n < 0) adds
\* before - after to the rollback counter; a call that returns an error
\* changes neither counter.
C27_CountersFollowDelta ==
    /\ \A x \in UpInputs :
           IF UpOf(x).err = "nil" THEN CountsApplied(UpOf(x))
           ELSE CountsNothing(UpOf(x))
    /\ DownAndStepsCount


(* ---- statements outside a bracket ---- *)
\* the positions of the statements that lie outside every bracket
Unbracketed(in) ==
    {p \in 1..Len(in) : IsPlain(in[p]) /\ ~OpenBefore(in, p)}

\* the maximal runs <<a, b>> of consecutive statements outside a bracket
Runs(in) ==
    {ab \in (1..Len(in)) \X (1..Len(in)) :
        /\ ab[1] <= ab[2]
        /\ \A p \in ab[1]..ab[2] : p \in Unbracketed(in)
        /\ (ab[1] - 1) \notin Unbracketed(in)
        /\ (ab[2] + 1) \notin Unbracketed(in)}

\* C28, as stated: under the PostgreSQL dialect every statement outside a
\* BEGIN...COMMIT bracket is a block of its own, so that the number of
\* blocks is the number of brackets plus the number of such statements.
C28_SingletonBlocks ==
    pb.pc = "returned" /\ pb.err = "nil" =>
        /\ \A p \in Unbracketed(pb.stmts) :
               \E b \in 1..Len(pb.blocks) : pb.blocks[b] = <<pb.stmts[p]>>
        /\ Unbracketed(pb.stmts) # {} =>
               Len(pb.blocks) = Cardinality(Brackets(pb.stmts))
                                    + Cardinality(Unbracketed(pb.stmts))

\* C28, amended: under the PostgreSQL dialect every maximal run of
\* consecutive statements outside a BEGIN...COMMIT bracket is one block,
\* so that k consecutive un-bracketed statements yield one block of k
\* statements and the number of blocks is the number of brackets plus the
\* number of runs (one empty block when there is neither).
C28_RunIsOneBlock ==
    pb.pc = "returned" /\ pb.err = "nil" =>
        /\ \A ab \in Runs(pb.stmts) :
               \E b \in 1..Len(pb.blocks) :
                   pb.blocks[b] = SubSeq(pb.stmts, ab[1], ab[2])
        /\ Len(pb.blocks) =
               IF Brackets(pb.stmts) = {} /\ Runs(pb.stmts) = {} THEN 1
               ELSE Cardinality(Brackets(pb.stmts))
                        + Cardinality(Runs(pb.stmts))

\* ParseBlocks has returned two blocks for [s1, s2, BEGIN, s3, COMMIT]: the
\* two statements before the bracket as one block, then the bracket
C28_Witness ==
    /\ pb.pc = "returned" /\ pb.err = "nil"
    /\ Len(pb.stmts) = 5
    /\ Runs(pb.stmts) = {<<1, 2>>}
    /\ Brackets(pb.stmts) = {<<3, 5>>}
    /\ pb.blocks = <<SubSeq(pb.stmts, 1, 2), <<pb.stmts[4]>>>>


(* ---- the row of Steps and of Down ---- *)
\* the call appended one row, of this action and of the resulting version
OneRow(r, action) ==
    /\ Len(r.h) = Len(history) + 1
    /\ SubSeq(r.h, 1, Len(history)) = history
    /\ r.h[Len(r.h)].action = action
    /\ r.h[Len(r.h)].version = After(r)

\* C29: a successful Steps(n) appends exactly one history row, `up` with
\* the resulting version if the schema version increased, `rollback` with
\* the resulting version if it decreased, and no row if the version did not
\* change; a successful Down that lowered the version appends exactly one
\* `down` row with the resulting version.
C29_OneRowPerMove ==
    /\ \A n \in (-MaxStep)..MaxStep, i \in StepsInputs :
           StepsOf(n, i).err = "nil" =>
               IF After(StepsOf(n, i)) > Before
               THEN OneRow(StepsOf(n, i), "up")
               ELSE IF After(StepsOf(n, i)) < Before
               THEN OneRow(StepsOf(n, i), "rollback")
               ELSE StepsOf(n, i).h = history
    /\ \A i \in DownInputs :
           DownOf(i).err = "nil" /\ After(DownOf(i)) < Before =>
               OneRow(DownOf(i), "down")


(* ---- the history is append-only ---- *)
\* the rows of h are the first rows of h2, with a committed flag that may
\* have gone from false to true and nothing else changed
Extends(h, h2) ==
    /\ Len(h2) >= Len(h)
    /\ \A i \in 1..Len(h) :
           /\ h2[i].action = h[i].action
           /\ h2[i].version = h[i].version
           /\ h2[i].executed_by = h[i].executed_by
           /\ h2[i].sha256 = h[i].sha256
           /\ h[i].committed => h2[i].committed

\* C30: across all sequences of calls of the Manager the history is
\* append-only and commitment is irreversible: no call deletes a row or
\* changes a row's action, version, actor or hash, and no call changes a
\* row's committed flag from true to false.
C30_AppendOnly == [][Extends(history, history')]_vars

\* a committed row is followed by a row written after the commit, and a
\* row with a hash stands beside a row without one
C30_Witness ==
    /\ Len(history) >= 3
    /\ \E i, j \in 1..Len(history) :
           i < j /\ history[i].committed /\ ~history[j].committed
    /\ \E i, j \in 1..Len(history) :
           history[i].sha256 = "NULL" /\ history[j].sha256 # "NULL"


(* ---- a failed block ends the validation ---- *)
\* a block has failed, or ValidateSQL has returned false
Failed == val.blockErr # "nil" \/ (val.pc = "returned" /\ ~val.ok)

\* ValidateSQL has returned: ok goes with a nil error, and with ok every
\* block had its transaction and every statement was passed by
\* ValidateStmt or skipped on a confirmation
ReturnsWhole ==
    val.pc = "returned" =>
        /\ val.ok <=> val.err = "nil"
        /\ val.ok =>
               /\ val.blockErr = "nil"
               /\ val.begun = Len(val.blocks)
               /\ val.executed + val.asked = val.lead + SumLen(val.blocks)

\* once a block has failed no transaction is begun and ok is not returned
StopsAtFailure ==
    Failed =>
        /\ val'.begun = val.begun
        /\ ~val'.ok
        /\ val'.pc = "returned" => val'.err # "nil"

\* C31: ValidateSQL returns ok = true only if every statement of every
\* block was validated or skipped on confirmation; at the first block that
\* fails it returns (false, error) and begins no transaction for any later
\* block.
C31_FirstFailureEnds == [](ReturnsWhole) /\ [][StopsAtFailure]_vars

\* the first of two blocks has failed and ValidateSQL has returned false
\* with one transaction begun
C31_Witness ==
    /\ val.pc = "returned" /\ ~val.ok /\ val.err # "nil"
    /\ Len(val.blocks) = 2 /\ val.b = 1
    /\ val.begun = 1 /\ val.rolledBack = 1


(* ---- what ValidateStmt sends ---- *)
\* the statement went to the database once, wrapped if it is DML and bare
\* if it is not
SentAsClassified(d) ==
    vs.pc = "returned" /\ vs.d = d =>
        vs.sent = IF StatementType(vs.d, vs.stmt) = "DML"
                  THEN <<<<"EXPLAIN">> \o vs.stmt>>
                  ELSE <<vs.stmt>>

\* C32: for every dialect (PostgreSQL, MySQL, SQLite) validateStmt sends a
\* statement classified DML to the database only as EXPLAIN <stmt>, never
\* bare, and executes directly only statements classified DDL or UNKNOWN.
C32_DmlOnlyExplained == \A d \in Dialects : SentAsClassified(d)


(* ---- which rows carry a hash ---- *)
\* the rows the call appended
NewRows(r) == {r.h[i] : i \in (Len(history) + 1)..Len(r.h)}

\* every row the call appended is without a hash
NoHash(r) == \A row \in NewRows(r) : row.sha256 = "NULL"

\* the rows written by Down, Steps and SafeForce carry no hash
OthersWriteNoHash ==
    /\ \A i \in DownInputs : NoHash(DownOf(i))
    /\ \A n \in (-MaxStep)..MaxStep, i \in StepsInputs : NoHash(StepsOf(n, i))
    /\ \A target \in SafeForceTargets : NoHash(SafeForceOf(target))

\* C33: a history row carries a non-empty sha256 only if its action is
\* `up` and strict-hash mode was enabled in the Manager that wrote it; with
\* strict-hash mode off, no row written by any operation carries a hash.
C33_HashOnlyWhenStrict ==
    /\ \A x \in UpInputs : \A row \in NewRows(UpOf(x)) :
           row.sha256 # "NULL" => row.action = "up" /\ x.strict
    /\ OthersWriteNoHash


(* ---- a construct that is never closed ---- *)
\* GenericSplit has returned inside a quoted string, a quoted identifier,
\* a block comment or a dollar-quoted section
Unclosed ==
    /\ sp.pc = "returned"
    /\ \/ sp.inSQuote \/ sp.inDQuote \/ sp.inBlockComment
       \/ sp.dollarTag # <<>>

\* the labels of the construct the text ends in
LastKind(text) ==
    LET k == Constructs(text)[Len(text)]
    IN  IF k \in {"open", "body"} THEN {"open", "body"} ELSE {k}

\* where the construct the text ends in was opened
OpenedAt(text) ==
    LET from == {a \in 1..Len(text) :
                    \A p \in a..Len(text) :
                        Constructs(text)[p] \in LastKind(text)}
    IN  CHOOSE a \in from : \A b \in from : a <= b

IsSuffixOf(part, whole) ==
    /\ Len(part) <= Len(whole)
    /\ SubSeq(whole, Len(whole) - Len(part) + 1, Len(whole)) = part

\* C34: when a single quote, a double quote, a block comment or a
\* dollar-quote is opened and never closed, GenericSplit returns without
\* error and everything from the opening token to the end of the input
\* (less the trailing white space that flush trims) lies in one statement,
\* the last: no `;` after the opening token causes a split.
C34_UnclosedAbsorbsRest ==
    Unclosed =>
        /\ \A p \in sp.cuts : p < OpenedAt(sp.text)
        /\ sp.stmts # <<>>
        /\ IsSuffixOf(TrimRight(SubSeq(sp.text, OpenedAt(sp.text),
                                       Len(sp.text))),
                      sp.stmts[Len(sp.stmts)])

\* GenericSplit has returned inside a construct that holds a `;`, after a
\* split at a `;` before it
C34_Witness ==
    /\ Unclosed
    /\ sp.cuts # {}
    /\ \E p \in OpenedAt(sp.text)..Len(sp.text) : sp.text[p] = ";"


(* ---- the statements are the segments of the input ---- *)
\* the text between consecutive top-level `;` (and the ends of the text),
\* trimmed, in order, without the empty ones
RECURSIVE Segments(_, _, _)
Segments(text, from, semis) ==
    LET ahead == {p \in semis : p >= from}
        to == IF ahead = {} THEN Len(text) + 1
              ELSE CHOOSE p \in ahead : \A q \in ahead : p <= q
        seg == TrimSpace(SubSeq(text, from, to - 1))
        rest == IF to > Len(text) THEN <<>>
                ELSE Segments(text, to + 1, semis)
    IN  IF seg = <<>> THEN rest ELSE <<seg>> \o rest

\* C35: every statement returned by GenericSplit is, character for
\* character, a white-space-trimmed contiguous part of the input, and the
\* returned statements in order are exactly the input's non-empty
\* top-level `;`-delimited segments: no character is added, dropped or
\* duplicated, including around opening and closing dollar-quote tags.
C35_StatementsAreSegments ==
    sp.pc = "returned" =>
        /\ \A k \in 1..Len(sp.stmts) : IsPartOf(sp.stmts[k], sp.text)
        /\ sp.stmts = Segments(sp.text, 1, TopSemis(sp.text))


(* ---- two instances of Up ---- *)
\* the `up` rows of version v
UpRowsOf(v) ==
    {k \in 1..Len(history) :
        history[k].action = "up" /\ history[k].version = v}

\* the versions whose files the engine of either instance executed
Applied == UNION {inst[i].r.ran : i \in Instances}

\* both calls of Up have returned success
BothDone ==
    \A i \in Instances : inst[i].pc = "returned" /\ inst[i].err = "nil"

\* C36: when two Manager instances run Up concurrently against the same
\* database and migrations directory, with the engine's apply serialized
\* by the database lock, each migration version is applied at most once
\* and the history ends with exactly one `up` row per applied version.
C36_OneRowPerVersion ==
    BothDone =>
        /\ inst[1].r.ran \cap inst[2].r.ran = {}
        /\ \A v \in Applied : Cardinality(UpRowsOf(v)) = 1


(* ---- a call that returns an error writes no row ---- *)
\* the call returned success or left the history as it was
QuietOnError(r) == r.err # "nil" => r.h = history

\* Down, Steps and SafeForce write no row when they return an error
OthersQuietOnError ==
    /\ \A i \in DownInputs : QuietOnError(DownOf(i))
    /\ \A n \in (-MaxStep)..MaxStep, i \in StepsInputs :
           QuietOnError(StepsOf(n, i))
    /\ \A target \in SafeForceTargets : QuietOnError(SafeForceOf(target))

\* C37: every call of Up, Down, Steps or SafeForce that returns an error
\* leaves the history unchanged, including a call that fails the dirty
\* post-condition check after the engine reported no error: history rows
\* are appended only by calls that return success.
C37_ErrorsWriteNoRow ==
    /\ \A x \in UpInputs : QuietOnError(UpOf(x))
    /\ OthersQuietOnError


(* ---- validated before executed ---- *)
\* every file the engine executed in the call went through the validator
\* earlier in the call
RanValidated(r) == r.ran \subseteq r.validated

\* C38: every migration file (up or down) that the Manager causes the
\* engine to execute has been passed through the Validator and accepted
\* earlier in the same Manager call; this holds for Up, for Down and for
\* Steps(n) with every n, positive or negative.
C38_ValidatedBeforeRun ==
    /\ \A x \in UpInputs : RanValidated(UpOf(x))
    /\ \A i \in DownInputs : RanValidated(DownOf(i))
    /\ \A n \in (-MaxStep)..MaxStep, i \in StepsInputs :
           RanValidated(StepsOf(n, i))


(* ---- Up is idempotent ---- *)
\* Up again, on what the call r left, with any input
UpAgain(r, y) ==
    UpCall(r.st, r.h, files, y.strict, maxRetries, y.outs, y.failIdx,
           y.valFail)

\* r left the database clean at the highest version on disk, Status
\* reports nothing pending, and Up again succeeds and changes nothing
Settled(r) ==
    /\ r.st = [v |-> Max(DOMAIN files), d |-> FALSE]
    /\ Status(r.st, files).pending = 0
    /\ \A y \in UpInputs :
           /\ UpAgain(r, y).err = "nil"
           /\ UpAgain(r, y).h = r.h
           /\ UpAgain(r, y).st = r.st

\* C39: from any clean state in which no pending version is committed and
\* every pending file validates and applies without error, a successful Up
\* leaves the database clean at the highest on-disk version, after which
\* Status reports 0 pending and an immediately repeated Up returns success
\* without appending any history row or changing the version.
C39_UpIdempotent ==
    ~dbDirty =>
        \A x \in UpInputs : UpOf(x).err = "nil" => Settled(UpOf(x))

\* Up has taken the database from below to the highest of two versions on
\* disk, and written the row of that version
C39_Witness ==
    /\ ~dbDirty /\ dbVersion = 2 /\ DOMAIN files = {1, 2}
    /\ history # <<>>
    /\ history[Len(history)].action = "up"
    /\ history[Len(history)].version = 2
    /\ history[Len(history)].sha256 # "NULL"
    /\ Status(State, files).pending = 0

====
